---- MODULE Spec2Model ----
(***************************************************************************)
(* data-mesher: the replicated mesh of src/data_mesher/data.py             *)
(* (Hostname, Host, Network, DataMesher) and its merge rules.              *)
(*                                                                         *)
(* Time is held in whole seconds (the unit the signed content and the      *)
(* transport document use).  An Ed25519 signature is modelled by what      *)
(* verification can learn from it: the key that made it and the content    *)
(* that was signed.                                                        *)
(***************************************************************************)
EXTENDS Integers, Sequences, FiniteSets, TLC

VARIABLES networks, host, key, selfIn, now, last, applied

\* the running nodes: each node's mesh, its reconciler task, its bootstrap
\* peers, the reconciler's request in flight, its files, the last event, and
\* the life cycle of each node's web application
VARIABLES mesh, task, peers, wire, files, ev, app

\* the variables of one mesh object, and those of the running nodes
meshvars == <<networks, host, key, selfIn, last, applied>>

sysvars == <<mesh, task, peers, wire, files, ev, app>>

vars == <<networks, host, key, selfIn, now, last, applied, mesh, task, peers, wire, files, ev, app>>

\* ------------------------------------------------------------------ bounds

\* last_seen, signed_at and the clock range over 1..MaxTime
MaxTime == 2
\* Network.last_update ranges over 1..MaxUpdate
MaxUpdate == 3
\* the longest logged sequence of merged documents
MaxDocs == 2

\* the default port (cli.py)
Port == 7331

Keys == {"KA", "KB"}
\* a key that owns no host: the signer of a forged signature
ForeignKey == "KX"
NoKey == "none"
NetIds == {"test"}
IPs == {"::1", "::2"}
Names == {"wiki"}
Times == 1 .. MaxTime

\* ------------------------------------------------------------ Hostname

\* signed_at = 0 and signature = NoSig stand for Python's None
NoSig == [signer |-> NoKey, hostname |-> "", signed_at |-> 0]

Hostname(name, signed_at, signature) ==
  [hostname |-> name, signed_at |-> signed_at, signature |-> signature]

HostnameIsSigned(hn) == hn.signed_at # 0 /\ hn.signature # NoSig

\* Hostname.data_to_sign: the name, and signed_at only when both signed_at
\* and signature are set
HostnameDataToSign(hn) ==
  [hostname |-> hn.hostname,
   signed_at |-> IF HostnameIsSigned(hn) THEN hn.signed_at ELSE 0]

\* Hostname.__json__: data_to_sign plus the signature when signed
HostnameJson(hn) ==
  [hostname |-> hn.hostname,
   signed_at |-> IF HostnameIsSigned(hn) THEN hn.signed_at ELSE 0,
   signature |-> IF HostnameIsSigned(hn) THEN hn.signature ELSE NoSig]

\* a signature by signing key k over the content of hn
HostnameSign(k, name, signed_at) ==
  [signer |-> k, hostname |-> name, signed_at |-> signed_at]

\* ---------------------------------------------------------------- Host

\* Host.data_to_sign
DataToSign(h) ==
  [ip |-> h.ip, port |-> h.port, last_seen |-> h.last_seen,
   hostnames |-> [n \in DOMAIN h.hostnames |-> HostnameJson(h.hostnames[n])]]

\* signing_key.sign(json.dumps(data_to_sign())): the signer and the content
Sign(k, h) == [signer |-> k, msg |-> DataToSign(h)]

\* Host.verify: public_key.verify(signature) raises BadSignatureError unless
\* the signature was made by public_key, and returns the signed content,
\* which is compared with data_to_sign()
Verify(h) ==
  IF h.signature.signer # h.public_key THEN "raise"
  ELSE IF h.signature.msg = DataToSign(h) THEN "true" ELSE "false"

\* Host.update_signature
UpdateSignature(h, k, t) ==
  LET h1 == [h EXCEPT !.last_seen = t]
  IN  [h1 EXCEPT !.signature = Sign(k, h1)]

HostMerge_NoAgeCheck(self, other) ==
  CASE Verify(other) = "true"  -> [host |-> other, ok |-> TRUE]
    [] Verify(other) = "false" -> [host |-> self, ok |-> TRUE]
    [] OTHER                   -> [host |-> self, ok |-> FALSE]

HostMerge_AtLeast(self, other) ==
  IF other.last_seen >= self.last_seen
  THEN CASE Verify(other) = "true"  -> [host |-> other, ok |-> TRUE]
         [] Verify(other) = "false" -> [host |-> self, ok |-> TRUE]
         [] OTHER                   -> [host |-> self, ok |-> FALSE]
  ELSE [host |-> self, ok |-> TRUE]

\* Host.merge(self, other): the record self becomes, and ok = FALSE when
\* other.verify() raised (nothing was assigned before the exception)
HostMerge(self, other) ==
  IF other.last_seen > self.last_seen
  THEN CASE Verify(other) = "true" ->
              [host |-> [self EXCEPT !.ip = other.ip,
                                     !.port = other.port,
                                     !.public_key = other.public_key,
                                     !.last_seen = other.last_seen,
                                     !.signature = other.signature,
                                     !.hostnames = other.hostnames],
               ok |-> TRUE]
         [] Verify(other) = "false" -> [host |-> self, ok |-> TRUE]
         [] OTHER                   -> [host |-> self, ok |-> FALSE]
  ELSE [host |-> self, ok |-> TRUE]

\* ------------------------------------------------------------- Network

\* Network.__init__: the settings and the host map _hosts
Network(tld, public, last_update, host_signing_keys, banned_keys, hostname_overrides, hosts) ==
  [tld |-> tld, public |-> public, last_update |-> last_update,
   host_signing_keys |-> host_signing_keys, banned_keys |-> banned_keys,
   hostname_overrides |-> hostname_overrides, hosts |-> hosts]

Put(f, k, v) == [x \in DOMAIN f \cup {k} |-> IF x = k THEN v ELSE f[x]]

\* A mesh is handled as m = [networks, host, selfIn]: host is the set holding
\* DataMesher.host (empty for None), and selfIn the networks whose
\* _hosts[host.public_key] is that very object (Network.hosts put it there).
Mesh(nets, h, si) == [networks |-> nets, host |-> h, selfIn |-> si]

SelfHost(m) == CHOOSE h \in m.host : TRUE

\* an assignment to the self host object shows in every map that holds it
SetSelf(m, h) ==
  [m EXCEPT !.host = {h},
            !.networks = [n \in DOMAIN m.networks |->
                            IF n \in m.selfIn
                            THEN [m.networks[n] EXCEPT
                                    !.hosts = Put(@, h.public_key, h)]
                            ELSE m.networks[n]]]

\* the property Network.hosts of network n, read at time t: with a self host,
\* re-sign it (when the mesh has a signing key sk) and put it into _hosts
HostsProp(m, n, sk, t) ==
  IF m.host = {} THEN m
  ELSE LET h == IF sk # NoKey THEN UpdateSignature(SelfHost(m), sk, t)
                 ELSE SelfHost(m)
       IN  SetSelf([m EXCEPT !.selfIn = @ \cup {n}], h)

\* the object at networks[n]._hosts[k] becomes h (Host.merge assigns its
\* fields in place)
StoreMerged(m, n, k, h) ==
  IF m.host # {} /\ n \in m.selfIn /\ k = SelfHost(m).public_key
  THEN SetSelf(m, h)
  ELSE [m EXCEPT !.networks[n].hosts = Put(@, k, h)]

\* the host map is replaced by one that holds the new record alone
InsertHost_Alone(m, n, k, h) == [m EXCEPT !.networks[n].hosts = [x \in {k} |-> h]]

\* self._hosts[host] = other.hosts[host]
InsertHost(m, n, k, h) == [m EXCEPT !.networks[n].hosts = Put(@, k, h)]

\* Network.merge, the loop over other.hosts in the document's order; ok is
\* FALSE when Host.merge raised, which ends the loop where it stands
RECURSIVE MergeHosts(_, _, _, _, _, _)
MergeHosts(m, n, other, order, sk, t) ==
  IF order = <<>> THEN [m |-> m, ok |-> TRUE]
  ELSE LET k  == Head(order)
           m1 == HostsProp(m, n, sk, t)
       IN  IF k \in DOMAIN m1.networks[n].hosts
           THEN LET r  == HostMerge(m1.networks[n].hosts[k], other.hosts[k])
                    m2 == StoreMerged(m1, n, k, r.host)
                IN  IF r.ok
                    THEN MergeHosts(m2, n, other, Tail(order), sk, t)
                    ELSE [m |-> m2, ok |-> FALSE]
           ELSE MergeHosts(InsertHost(m1, n, k, other.hosts[k]), n, other,
                           Tail(order), sk, t)

\* Network.merge(self = networks[n], other)
NetworkMerge(m, n, other, sk, t) ==
  LET self == m.networks[n]
      set  == IF other.last_update > self.last_update
              THEN [self EXCEPT
                      !.tld = other.tld,
                      !.public = other.public,
                      !.host_signing_keys = other.host_signing_keys,
                      !.banned_keys = other.banned_keys,
                      !.hostname_overrides = other.hostname_overrides]
              ELSE self
  IN  MergeHosts([m EXCEPT !.networks[n] = set], n, other, other.order, sk, t)

\* ---------------------------------------------------------- DataMesher

\* the Network object a document's network is once it is held in a mesh
\* (the stored map keeps no order)
Stored(net) ==
  Network(net.tld, net.public, net.last_update, net.host_signing_keys,
          net.banned_keys, net.hostname_overrides, net.hosts)

\* DataMesher.merge, the loop over other.networks in the document's order
RECURSIVE MergeNetworks(_, _, _, _, _)
MergeNetworks(m, other, order, sk, t) ==
  IF order = <<>> THEN [m |-> m, ok |-> TRUE]
  ELSE LET n == Head(order)
       IN  IF n \in DOMAIN m.networks
           THEN LET r == NetworkMerge(m, n, other.nets[n], sk, t)
                IN  IF r.ok
                    THEN MergeNetworks(r.m, other, Tail(order), sk, t)
                    ELSE r
           ELSE MergeNetworks(
                  [m EXCEPT !.networks = Put(@, n, Stored(other.nets[n]))],
                  other, Tail(order), sk, t)

\* DataMesher.merge(self, other)
DataMesherMerge(m, other, sk, t) == MergeNetworks(m, other, other.order, sk, t)

\* -------------------------------------------------------------- inputs

NoNames == [n \in {} |-> NoSig]

SigKinds == {"good", "tampered", "forged"}

\* a host record as a peer can send it: signed by its own key ("good"), with
\* a signature of its own key over other content ("tampered"), or with a
\* signature its key did not make ("forged")
MkHost(k, ip, ls, hn, kind) ==
  LET h == [public_key |-> k, ip |-> ip, port |-> Port, last_seen |-> ls,
            hostnames |-> hn, signature |-> [signer |-> k, msg |-> <<>>]]
  IN  [h EXCEPT !.signature =
         CASE kind = "good"     -> Sign(k, h)
           [] kind = "tampered" -> Sign(k, [h EXCEPT !.port = 0])
           [] OTHER             -> Sign(ForeignKey, h)]

HostnameMaps ==
  {NoNames}
    \cup {[n \in {name} |-> Hostname(name, 0, NoSig)] : name \in Names}
    \cup {[n \in {name} |-> Hostname(name, t, HostnameSign(s, name, t))] :
            name \in Names, t \in Times, s \in Keys}

HostPool(k) ==
  {MkHost(k, ip, ls, hn, kind) :
     ip \in IPs, ls \in Times, hn \in HostnameMaps, kind \in SigKinds}

Settings(lu, banned) ==
  Network("test", TRUE, lu, <<"KA">>, banned, <<>>, NoNames)

\* ------------------------------------------------------------- actions

\* no node is running
NoNodes ==
  /\ mesh = <<>>
  /\ task = <<>>
  /\ peers = <<>>
  /\ wire = <<>>
  /\ files = <<>>
  /\ ev = <<>>
  /\ app = <<>>

\* what the last step did: the operation, whether it raised, and for a direct
\* Host.merge the network, the key, the record before the call and the argument
NoOp == [op |-> "init", raised |-> FALSE, net |-> "", hkey |-> "",
         self |-> {}, other |-> {}]

CurrentMesh == Mesh(networks, host, selfIn)

\* a direct call networks[n].hosts[k].merge(o)
HostMergeStep(n, k, o) ==
  /\ n \in DOMAIN networks
  /\ k \in DOMAIN networks[n].hosts
  /\ LET self == networks[n].hosts[k]
         r    == HostMerge(self, o)
         m    == StoreMerged(CurrentMesh, n, k, r.host)
     IN  /\ networks' = m.networks
         /\ host' = m.host
         /\ selfIn' = m.selfIn
         /\ last' = [op |-> "Host.merge", raised |-> ~r.ok, net |-> n,
                     hkey |-> k, self |-> {self}, other |-> {o}]
  /\ UNCHANGED <<key, now, applied>>
  /\ UNCHANGED sysvars

InitHost ==
  /\ \E h \in HostPool("KA") :
       networks = [n \in {"test"} |->
                     [Settings(1, <<>>) EXCEPT !.hosts = [k \in {"KA"} |-> h]]]
  /\ host = {}
  /\ key = NoKey
  /\ selfIn = {}
  /\ now = 1
  /\ last = NoOp
  /\ applied = <<>>
  /\ NoNodes

NextHost == \E n \in NetIds, k \in Keys : \E o \in HostPool(k) : HostMergeStep(n, k, o)

SpecHost == InitHost /\ [][NextHost]_vars

\* --------------------------------------------------- the mesh protocol

\* the host lists a document can carry: records of distinct keys, in any order
HostSeqs(pool) ==
  UNION {{s \in [1 .. n -> pool] :
            \A i, j \in 1 .. n : i # j => s[i].public_key # s[j].public_key} :
         n \in 0 .. Cardinality(Keys)}

\* a network as load() builds it from a document: the settings and the hosts
\* in the document's order
NetDoc(settings, hs) ==
  [tld |-> settings.tld, public |-> settings.public,
   last_update |-> settings.last_update,
   host_signing_keys |-> settings.host_signing_keys,
   banned_keys |-> settings.banned_keys,
   hostname_overrides |-> settings.hostname_overrides,
   hosts |-> [k \in {hs[i].public_key : i \in 1 .. Len(hs)} |->
                LET i == CHOOSE j \in 1 .. Len(hs) : hs[j].public_key = k
                IN  hs[i]],
   order |-> [i \in 1 .. Len(hs) |-> hs[i].public_key]]

\* DataMesher(networks=load(data)) for a document with one network
Doc(n, net) == [order |-> <<n>>, nets |-> [x \in {n} |-> net]]

\* the records of the protocol runs: one address, no hostnames
PlainPool ==
  UNION {{h \in HostPool(k) : h.ip = "::1" /\ h.hostnames = NoNames} : k \in Keys}

\* the documents of the protocol runs
MeshDocs ==
  {Doc(n, NetDoc(Settings(lu, <<>>), hs)) :
     n \in NetIds, lu \in Times, hs \in HostSeqs(PlainPool)}

\* the node's own host, as Host(..., signing_key=key) makes it at time 1
OwnHost == MkHost("KA", "::1", 1, NoNames, "good")

Op(name, raised) == [NoOp EXCEPT !.op = name, !.raised = raised]

\* DataMesher(host=..., key=...) with no state file and no networks
Init ==
  /\ networks = [n \in {} |-> Settings(1, <<>>)]
  /\ host \in {{}, {OwnHost}}
  /\ key \in {NoKey, "KA"}
  /\ selfIn = {}
  /\ now = 1
  /\ last = NoOp
  /\ applied = <<>>
  /\ NoNodes

\* dm.merge(other), as the reconciler and the POST handler call it
Merge(d) ==
  /\ LET r == DataMesherMerge(CurrentMesh, d, key, now)
     IN  /\ networks' = r.m.networks
         /\ host' = r.m.host
         /\ selfIn' = r.m.selfIn
         /\ last' = Op("merge", ~r.ok)
  /\ UNCHANGED <<key, now, applied>>
  /\ UNCHANGED sysvars

Orders(S) ==
  {s \in [1 .. Cardinality(S) -> S] : \A i, j \in DOMAIN s : i # j => s[i] # s[j]}

\* the copies of the mesh's networks, as documents (any iteration order)
Copies ==
  {[order |-> no,
    nets |-> [n \in DOMAIN networks |->
                [tld |-> networks[n].tld, public |-> networks[n].public,
                 last_update |-> networks[n].last_update,
                 host_signing_keys |-> networks[n].host_signing_keys,
                 banned_keys |-> networks[n].banned_keys,
                 hostname_overrides |-> networks[n].hostname_overrides,
                 hosts |-> networks[n].hosts,
                 order |-> ho[n]]]] :
     no \in Orders(DOMAIN networks),
     ho \in {f \in [DOMAIN networks -> UNION {Orders(DOMAIN networks[n].hosts) : n \in DOMAIN networks}] :
               \A n \in DOMAIN networks : f[n] \in Orders(DOMAIN networks[n].hosts)}}

\* dm.merge(copy of dm)
MergeCopy ==
  /\ networks # [n \in {} |-> Settings(1, <<>>)]
  /\ \E d \in Copies :
       LET r == DataMesherMerge(CurrentMesh, d, key, now)
       IN  /\ networks' = r.m.networks
           /\ host' = r.m.host
           /\ selfIn' = r.m.selfIn
           /\ last' = Op("copy", ~r.ok)
  /\ UNCHANGED <<key, now, applied>>
  /\ UNCHANGED sysvars

\* the clock advances
Tick ==
  /\ now < MaxTime
  /\ now' = now + 1
  /\ last' = Op("tick", FALSE)
  /\ UNCHANGED <<networks, host, key, selfIn, applied>>
  /\ UNCHANGED sysvars

Next ==
  \/ \E d \in MeshDocs : Merge(d)
  \/ MergeCopy
  \/ Tick

Spec == Init /\ [][Next]_vars

\* ------------------------------------------------ Host.merge: C2 and C3

\* C2: across any sequence of Host.merge calls, with verifying or
\* non-verifying arguments, the last_seen of every host record held in the
\* store never decreases.
C2_LastSeenNeverDecreases ==
  [][\A n \in DOMAIN networks : \A k \in DOMAIN networks[n].hosts :
       (n \in DOMAIN networks' /\ k \in DOMAIN networks'[n].hosts)
         => networks'[n].hosts[k].last_seen >= networks[n].hosts[k].last_seen]_vars

\* a Host.merge with a newer, verifying argument has advanced the record
C2_Witness ==
  /\ last.op = "Host.merge"
  /\ \E b \in last.self, o \in last.other :
       /\ o.last_seen > b.last_seen
       /\ networks[last.net].hosts[last.hkey].last_seen = o.last_seen

\* C3: Host.merge(self, other) with other.last_seen <= self.last_seen leaves
\* ip, port, public_key, last_seen, signature and hostnames of self
\* unchanged, whether or not other verifies (and does not raise).
C3_OlderIsNoOp ==
  last.op = "Host.merge" =>
    \A b \in last.self, o \in last.other :
      o.last_seen <= b.last_seen =>
        /\ networks[last.net].hosts[last.hkey] = b
        /\ ~last.raised

\* a verifying record of equal last_seen and other content was merged and
\* changed nothing
C3_Witness ==
  /\ last.op = "Host.merge"
  /\ \E b \in last.self, o \in last.other :
       /\ o.last_seen = b.last_seen
       /\ Verify(o) = "true"
       /\ o.ip # b.ip
       /\ networks[last.net].hosts[last.hkey] = b

\* ------------------------------------------------ the mesh protocol: C1

\* C1: after any sequence of merges every host held in every network of the
\* mesh verifies: its signature is a valid signature by its own public_key
\* over its current {ip, port, last_seen, hostnames}.
C1_AllHostsVerify ==
  \A n \in DOMAIN networks : \A k \in DOMAIN networks[n].hosts :
    Verify(networks[n].hosts[k]) = "true"

\* ------------------------------------------------------ idempotence: C5

\* what reading a mesh shows: its self host, and each network's settings and
\* hosts, the self host standing under its own key (Network.hosts)
PublicView(nets, hs) ==
  [host |-> hs,
   networks |-> [n \in DOMAIN nets |->
                   [nets[n] EXCEPT !.hosts =
                      IF hs = {} THEN @
                      ELSE LET h == CHOOSE x \in hs : TRUE
                           IN  Put(@, h.public_key, h)]]]

\* C5: merge is idempotent: merging a mesh with a copy of itself completes and
\* leaves the mesh equal to what it was before the merge.
C5_Idempotent ==
  [][last'.op = "copy" =>
       /\ ~last'.raised
       /\ PublicView(networks', host') = PublicView(networks, host)]_vars

\* ------------------------------------------------------- logged merges

\* the records of the logged runs: verifying records with every hostname map
NamePool ==
  UNION {{h \in HostPool(k) : h.ip = "::1" /\ Verify(h) = "true"} : k \in Keys}

BannedLists == {<<>>, <<"KB">>}

\* documents with any settings and no host
SettingsDocs ==
  {Doc(n, NetDoc(Settings(lu, b), <<>>)) :
     n \in NetIds, lu \in 1 .. MaxUpdate, b \in BannedLists}

\* documents with any settings and at most one host
LogDocs ==
  SettingsDocs
    \cup {Doc(n, NetDoc(Settings(lu, b), <<h>>)) :
            n \in NetIds, lu \in 1 .. MaxUpdate, b \in BannedLists, h \in NamePool}

\* an empty mesh without a self host
InitLog ==
  /\ networks = [n \in {} |-> Settings(1, <<>>)]
  /\ host = {}
  /\ key = NoKey
  /\ selfIn = {}
  /\ now = 1
  /\ last = NoOp
  /\ applied = <<>>
  /\ NoNodes

\* dm.merge(other), the document kept in the log
LoggedMerge(d, max) ==
  /\ Len(applied) < max
  /\ LET r == DataMesherMerge(CurrentMesh, d, key, now)
     IN  /\ networks' = r.m.networks
         /\ host' = r.m.host
         /\ selfIn' = r.m.selfIn
         /\ last' = Op("merge", ~r.ok)
  /\ applied' = Append(applied, d)
  /\ UNCHANGED <<key, now>>
  /\ UNCHANGED sysvars

NextLog == \E d \in LogDocs : LoggedMerge(d, MaxDocs)

SpecLog == InitLog /\ [][NextLog]_vars

NextSettings == \E d \in SettingsDocs : LoggedMerge(d, MaxDocs + 1)

SpecSettings == InitLog /\ [][NextSettings]_vars

\* the mesh that merging the documents of ds in turn into m gives
RECURSIVE MergeAll(_, _)
MergeAll(m, ds) ==
  IF ds = <<>> THEN m
  ELSE MergeAll(DataMesherMerge(m, Head(ds), NoKey, 1).m, Tail(ds))

EmptyMesh == Mesh([n \in {} |-> Settings(1, <<>>)], {}, {})

Range(s) == {s[i] : i \in DOMAIN s}

\* ------------------------------------------------- order of merges: C4

\* C4: merge is order-independent: merging a fixed set of update documents
\* into an initially empty mesh in any permutation produces the same final
\* mesh (same networks, settings, hosts and hostnames).
C4_OrderIndependent ==
  \A p \in Orders(DOMAIN applied) :
    MergeAll(EmptyMesh, [i \in DOMAIN applied |-> applied[p[i]]]).networks = networks

\* ------------------------------------------------------ banned keys: C6

\* C6: after any Network.merge, no host whose public key is listed in the
\* network's banned_keys is present in that network's hosts (here: a network
\* that held no host when it was adopted, and has since been merged into).
C6_NoBannedHost ==
  (Len(applied) >= 2 /\ \A n \in DOMAIN applied[1].nets : applied[1].nets[n].order = <<>>)
    => \A n \in DOMAIN networks : \A k \in DOMAIN networks[n].hosts :
         k \notin Range(networks[n].banned_keys)

\* --------------------------------------------------------- settings: C7

SettingsContent(net) ==
  [tld |-> net.tld, public |-> net.public,
   host_signing_keys |-> net.host_signing_keys,
   banned_keys |-> net.banned_keys,
   hostname_overrides |-> net.hostname_overrides]

\* the networks n of the documents merged so far
InputsFor(n) ==
  {applied[i].nets[n] : i \in {j \in DOMAIN applied : n \in DOMAIN applied[j].nets}}

\* C7: network settings are resolved last-writer-wins by last_update: the
\* settings held are those of an input with the greatest last_update among
\* the initial network and all merged networks.
C7_SettingsLastWriterWins ==
  \A n \in DOMAIN networks :
    \E d \in InputsFor(n) :
      /\ \A e \in InputsFor(n) : e.last_update <= d.last_update
      /\ SettingsContent(networks[n]) = SettingsContent(d)

\* -------------------------------------------------------- hostnames: C8

\* the keys authorised to sign hostnames in network n
AuthorisedKeys(n) == {n} \cup Range(networks[n].host_signing_keys)

\* a signature of an authorised key over the hostname's {name, signed_at}
HostnameVerifies(hn, keys) ==
  /\ hn.signature.signer \in keys
  /\ hn.signature.hostname = hn.hostname
  /\ hn.signature.signed_at = hn.signed_at

\* the hosts of hs that hold a signed claim for name verifying under keys
Claimants(hs, name, keys) ==
  {k \in DOMAIN hs :
     /\ name \in DOMAIN hs[k].hostnames
     /\ HostnameIsSigned(hs[k].hostnames[name])
     /\ HostnameVerifies(hs[k].hostnames[name], keys)}

\* the signed claims for name that reached network n: holder and Hostname
ClaimsReached(n, name) ==
  UNION {{[holder |-> k, hn |-> d.hosts[k].hostnames[name]] :
            k \in Claimants(d.hosts, name, AuthorisedKeys(n))} :
         d \in InputsFor(n)}

\* the signed claims for name held in network n
ClaimsHeld(n, name) ==
  {[holder |-> k, hn |-> networks[n].hosts[k].hostnames[name]] :
     k \in Claimants(networks[n].hosts, name, AuthorisedKeys(n))}

\* C8: among the signed claims for a name that reach a node through merges,
\* the claim with the smallest signed_at is the one retained, regardless of
\* their order of arrival and of the last_seen of the records carrying them.
C8_EarliestSignerWins ==
  \A n \in DOMAIN networks : \A name \in Names :
    ClaimsReached(n, name) # {} =>
      /\ ClaimsHeld(n, name) # {}
      /\ \A c \in ClaimsHeld(n, name) : \A r \in ClaimsReached(n, name) :
           c.hn.signed_at <= r.hn.signed_at

\* C9: every signed hostname held in a network after a merge verifies under
\* at least one authorised key of that network (its id or one of
\* host_signing_keys).
C9_SignedHostnamesAuthorised ==
  \A n \in DOMAIN networks : \A k \in DOMAIN networks[n].hosts :
    \A name \in DOMAIN networks[n].hosts[k].hostnames :
      HostnameIsSigned(networks[n].hosts[k].hostnames[name])
        => HostnameVerifies(networks[n].hosts[k].hostnames[name], AuthorisedKeys(n))

\* C10: an unsigned hostname never coexists in a network with a signed
\* hostname of the same name owned by a different host.
C10_NoTentativeBesideSigned ==
  \A n \in DOMAIN networks : \A k1, k2 \in DOMAIN networks[n].hosts :
    \A name \in DOMAIN networks[n].hosts[k1].hostnames \cap
                DOMAIN networks[n].hosts[k2].hostnames :
      ~ /\ k1 # k2
        /\ ~HostnameIsSigned(networks[n].hosts[k1].hostnames[name])
        /\ HostnameIsSigned(networks[n].hosts[k2].hostnames[name])

\* ------------------------------------------------- transport documents

\* A JSON object is the sequence of its entries [key, value]; a host object
\* and a settings object are functions of the fields they have.  A hostname
\* entry is the record of Hostname.__json__, signed_at = 0 and
\* signature = NoSig standing for an absent key.

HostFields == {"ip", "port", "last_seen", "hostnames", "signature"}

SettingsFields ==
  {"last_update", "tld", "public", "host_signing_keys", "banned_keys", "hostname_overrides"}

\* Host.__json__: data_to_sign() and the signature
JsonHost(h) ==
  [ip |-> h.ip, port |-> h.port, last_seen |-> h.last_seen,
   hostnames |-> [n \in DOMAIN h.hostnames |-> HostnameJson(h.hostnames[n])],
   signature |-> h.signature]

\* Network.__json__ of a network whose hosts are iterated in the given order
JsonNetwork(net, order) ==
  [settings |-> [last_update |-> net.last_update, tld |-> net.tld,
                 public |-> net.public,
                 host_signing_keys |-> net.host_signing_keys,
                 banned_keys |-> net.banned_keys,
                 hostname_overrides |-> net.hostname_overrides],
   hosts |-> [i \in DOMAIN order |->
                [key |-> order[i], value |-> JsonHost(net.hosts[order[i]])]]]

JsonObject(entries) == [kind |-> "object", nets |-> entries]

\* text that json.loads rejects
InvalidJson == [kind |-> "invalid"]

\* load: the Hostname built for an entry of "hostnames"
LoadHostname(name, j) ==
  IF j.signed_at # 0 THEN Hostname(name, j.signed_at, j.signature)
  ELSE Hostname(name, 0, NoSig)

\* load: the Host built for an entry of "hosts"
LoadHost(k, j) ==
  [public_key |-> k, ip |-> j.ip, port |-> j.port, last_seen |-> j.last_seen,
   hostnames |-> [n \in DOMAIN j.hostnames |-> LoadHostname(n, j.hostnames[n])],
   signature |-> j.signature]

\* load: building the Host raises inside the try block, and the host is left
\* out, when a field Host() is given is missing
HostSkipped(j) == ~({"ip", "port", "last_seen", "signature"} \subseteq DOMAIN j)

\* load: a KeyError outside the try block, for a network object v
NetworkRaises(v) ==
  \/ "hosts" \notin DOMAIN v
  \/ \E i \in DOMAIN v.hosts :
       \/ "hostnames" \notin DOMAIN v.hosts[i].value
       \/ \E n \in DOMAIN v.hosts[i].value.hostnames :
            /\ v.hosts[i].value.hostnames[n].signed_at # 0
            /\ v.hosts[i].value.hostnames[n].signature = NoSig
  \/ "settings" \notin DOMAIN v
  \/ ~(SettingsFields \subseteq DOMAIN v.settings)

\* load: the Network built for a network object that does not raise
LoadNetwork(v) ==
  LET kept == SelectSeq(v.hosts, LAMBDA e : ~HostSkipped(e.value))
  IN  NetDoc(v.settings, [i \in DOMAIN kept |-> LoadHost(kept[i].key, kept[i].value)])

\* load(data): ok = FALSE when it raises (KeyError, TypeError).  A dict is
\* iterated by its keys; an empty list gives no network; any other value
\* cannot be iterated or indexed
Load(j) ==
  IF j.kind = "object"
  THEN IF \E i \in DOMAIN j.nets : NetworkRaises(j.nets[i].value)
       THEN [ok |-> FALSE, doc |-> [order |-> <<>>, nets |-> <<>>]]
       ELSE [ok |-> TRUE,
             doc |-> [order |-> [i \in DOMAIN j.nets |-> j.nets[i].key],
                      nets |-> [n \in {j.nets[i].key : i \in DOMAIN j.nets} |->
                                  LET i == CHOOSE x \in DOMAIN j.nets : j.nets[x].key = n
                                  IN  LoadNetwork(j.nets[i].value)]]]
  ELSE [ok |-> j.kind = "emptylist", doc |-> [order |-> <<>>, nets |-> <<>>]]

\* no file at the path
NoFile == [kind |-> "missing"]

\* DataMesher.__init__(state_file, networks): the networks of the new mesh;
\* ok = FALSE when the constructor raises.  Text that is not JSON is read as {}.
Construct(file, nets) ==
  LET r == IF file.kind \in {"missing", "invalid"}
           THEN [ok |-> TRUE, doc |-> [order |-> <<>>, nets |-> <<>>]]
           ELSE Load(file)
  IN  [ok |-> r.ok,
       networks |-> [n \in DOMAIN r.doc.nets \cup DOMAIN nets |->
                       IF n \in DOMAIN nets THEN nets[n]
                       ELSE Stored(r.doc.nets[n])]]

\* --------------------------------------------------------- the nodes

Nodes == {"A", "B"}

\* the signing key a node is started with (cli.py reads it from the key file)
NodeKey(n) == IF n = "A" THEN "KA" ELSE "KB"

\* a node's mesh: the DataMesher object with its signing key
NodeMesh(nets, h, si, k) == [networks |-> nets, host |-> h, selfIn |-> si, key |-> k]

NoNetworks == [n \in {} |-> Settings(1, <<>>)]

\* the reconciler task: its position, the index of the bootstrap peer in
\* hand, the hosts of all_hosts still to visit, the peers contacted in this
\* round, the exception that ended the task, and whether that exception left
\* a merge partly applied
Task(pc, i, todo, contacted, cause) ==
  [pc |-> pc, i |-> i, todo |-> todo, contacted |-> contacted, cause |-> cause, partial |-> FALSE]

NoRequest == [method |-> "none"]

\* a node's files: the state file and the temporary file of a save
Files(state, tmp) == [state |-> state, tmp |-> tmp]

\* no mesh object is handled on its own
NoMesh ==
  /\ networks = NoNetworks
  /\ host = {}
  /\ key = NoKey
  /\ selfIn = {}
  /\ last = NoOp
  /\ applied = <<>>

\* --------------------------------------------------- start-up: C19

Without(f, k) == [x \in DOMAIN f \ {k} |-> f[x]]

\* a host that holds a signed hostname
NamedHost ==
  MkHost("KA", "::1", 1, [n \in {"wiki"} |-> Hostname("wiki", 1, HostnameSign("KA", "wiki", 1))], "good")

\* the network objects a state file can hold: complete ones, and ones that
\* lack a field
NetworkObjects ==
  UNION {LET v == JsonNetwork([Settings(1, <<>>) EXCEPT !.hosts = [k \in {"KA"} |-> h]], <<"KA">>)
         IN  {v,
              Without(v, "hosts"),
              Without(v, "settings"),
              [v EXCEPT !.settings = Without(@, "tld")],
              [v EXCEPT !.hosts[1].value = Without(@, "ip")],
              [v EXCEPT !.hosts[1].value = Without(@, "hostnames")],
              [v EXCEPT !.hosts[1].value.hostnames =
                 [n \in {"wiki"} |-> [hostname |-> "wiki", signed_at |-> 1, signature |-> NoSig]]]} :
         h \in {OwnHost, NamedHost}}

\* what can be at the path of the state file
FilePool ==
  {NoFile, InvalidJson, [kind |-> "scalar"], [kind |-> "emptylist"],
   [kind |-> "list"], JsonObject(<<>>)}
    \cup {JsonObject(<<[key |-> "test", value |-> v]>>) : v \in NetworkObjects}

\* a well-formed document: an object whose networks and hosts have every field
WellFormed(file) ==
  /\ file.kind = "object"
  /\ \A i \in DOMAIN file.nets :
       /\ ~NetworkRaises(file.nets[i].value)
       /\ \A x \in DOMAIN file.nets[i].value.hosts :
            ~HostSkipped(file.nets[i].value.hosts[x].value)

\* the nodes are not started, and any file is at the path of the state file
InitLoad ==
  /\ NoMesh
  /\ now = 1
  /\ mesh = [n \in Nodes |-> NodeMesh(NoNetworks, {}, {}, NodeKey(n))]
  /\ task = [n \in Nodes |-> Task("off", 0, <<>>, {}, "")]
  /\ peers = [n \in Nodes |-> <<>>]
  /\ wire = [n \in Nodes |-> NoRequest]
  /\ files \in [Nodes -> {Files(f, NoFile) : f \in FilePool}]
  /\ ev = [op |-> "init"]
  /\ app = [n \in Nodes |-> "new"]

\* cli.py: DataMesher(key=key, state_file=state_file)
Boot(n) ==
  /\ task[n].pc = "off"
  /\ LET r == Construct(files[n].state, NoNetworks)
     IN  /\ mesh' = [mesh EXCEPT ![n].networks = r.networks]
         /\ task' = [task EXCEPT ![n].pc = IF r.ok THEN "ready" ELSE "crashed",
                                 ![n].cause = IF r.ok THEN "" ELSE "KeyError"]
         /\ ev' = [op |-> "boot", node |-> n, file |-> files[n].state, raised |-> ~r.ok]
  /\ UNCHANGED <<peers, wire, files, now>>
  /\ UNCHANGED meshvars
  /\ UNCHANGED app

NextLoad == \E n \in Nodes : Boot(n)

SpecLoad == InitLoad /\ [][NextLoad]_vars

\* C19: loading never fails on a bad state file: if the state file is missing
\* or malformed (invalid JSON, or valid JSON that lacks required fields or
\* has wrong types), constructing the mesh completes without raising and
\* yields a mesh with no networks from the file.
C19_LoadNeverFails ==
  ev.op = "boot" =>
    /\ ~ev.raised
    /\ ~WellFormed(ev.file) => mesh[ev.node].networks = NoNetworks

\* ------------------------------------------------ the gossip endpoint

\* is_up2date: seen less than 60 seconds ago
UpToDateSeconds == 60

\* the clock of the running nodes advances by ClockStep up to MaxClock
ClockStep == UpToDateSeconds
MaxClock == 61

IsUp2Date(h, t) == t - h.last_seen < UpToDateSeconds

\* the property hosts of every network in ns, read at time t
RECURSIVE ReadAll(_, _, _)
ReadAll(m, ns, t) ==
  IF ns = {} THEN m
  ELSE LET n == CHOOSE x \in ns : TRUE
       IN  ReadAll(HostsProp(m, n, m.key, t), ns \ {n}, t)

\* the mesh after DataMesher.__json__, save or all_hosts has read every
\* network's hosts at time t
Refresh(m, t) == ReadAll(m, DOMAIN m.networks, t)

\* the orders in which the hosts of each network of m can be iterated
HostOrders(m) ==
  {f \in [DOMAIN m.networks -> UNION {Orders(DOMAIN m.networks[n].hosts) : n \in DOMAIN m.networks}] :
     \A n \in DOMAIN m.networks : f[n] \in Orders(DOMAIN m.networks[n].hosts)}

\* DataMesher.__json__ of a mesh whose hosts have been read: its documents,
\* one for each order of iteration of the dicts
Documents(m) ==
  {JsonObject([i \in DOMAIN no |->
                 [key |-> no[i], value |-> JsonNetwork(m.networks[no[i]], ho[no[i]])]]) :
     no \in Orders(DOMAIN m.networks), ho \in HostOrders(m)}

\* all_hosts, in the order of document d: the network and key of each host
HostList(d) ==
  LET RECURSIVE Flat(_)
      Flat(i) == IF i > Len(d.nets) THEN <<>>
                 ELSE [x \in DOMAIN d.nets[i].value.hosts |->
                         [net |-> d.nets[i].key, key |-> d.nets[i].value.hosts[x].key]]
                      \o Flat(i + 1)
  IN  Flat(1)

\* a request body: its content type, and the JSON text or the form fields
JsonBody(j) == [ctype |-> "json", text |-> j, fields |-> {}]

FormBody(fields) == [ctype |-> "form", text |-> InvalidJson, fields |-> fields]

\* request.post(): the fields of a form; empty for any other content type
RequestPost(body) == IF body.ctype = "form" THEN body.fields ELSE {}

EmptyDoc == [order |-> <<>>, nets |-> <<>>]

\* DataMesher(networks=dict(data)): ok = FALSE when the constructor raises
\* AttributeError, the values of form fields being strings
PostedMesh(body) == [ok |-> RequestPost(body) = {}, doc |-> EmptyDoc]

\* get_data at time t: the mesh after the handler and the status
GetData(m, t) == [m |-> Refresh(m, t), status |-> 200]

\* post_data at time t: the mesh after the handler and the status (500 when
\* the handler raised)
PostData(m, body, t) ==
  LET other == PostedMesh(body)
      r     == DataMesherMerge(m, other.doc, m.key, t)
  IN  IF ~other.ok \/ ~r.ok THEN [m |-> IF other.ok THEN r.m ELSE m, status |-> 500]
      ELSE [m |-> Refresh(r.m, t), status |-> 200]

\* the handler of a request
Handle(m, method, body, t) ==
  IF method = "GET" THEN GetData(m, t) ELSE PostData(m, body, t)

\* the response to a request: web.json_response(dm.__json__()) with document
\* d, or the error page of a handler that raised
Response(status, d) ==
  [kind |-> "ok", status |-> status,
   json |-> IF status = 200 THEN d ELSE InvalidJson]

Failure(e) == [kind |-> "fail", error |-> e]

NoResponse == [kind |-> "none"]

Request(method, to, d) ==
  [method |-> method, to |-> to, body |-> JsonBody(d), resp |-> NoResponse]

\* the address http://[ip]:port of a host record: the node that listens there
NodeAt(ip) == IF ip = "::1" THEN "A" ELSE "B"

\* ---------------------------------------------------- the reconciler

\* create_client runs from one await to the next in one step.  Its positions
\* are "get" and "post" (the requests to bootstrap peer i), "stale" (the POST
\* to a host that is not up to date), "sleep", and "dead" once an exception
\* has left the task.

\* the connection errors of a request, and the ones create_client catches
\* around the requests to a bootstrap peer
ConnectionErrors == {"InvalidURL", "ClientConnectorError", "TimeoutError"}

Caught == {"InvalidURL", "ClientConnectorError"}

\* where the reconciler stands at its next await: the mesh, the task and
\* the request sent
Position(m, t, w) == [m |-> m, task |-> t, wire |-> w]

\* what a step of the reconciler leaves: its position, the state file and
\* the event
Outcome(pos, f, e) ==
  [m |-> pos.m, task |-> pos.task, wire |-> pos.wire, file |-> f, ev |-> e]

\* the task ended by exception e
Dead(t, e, partial) == [t EXCEPT !.pc = "dead", !.cause = e, !.partial = partial]

\* the loop over dm.all_hosts from the hosts in todo on: the POST to the first
\* host that is not up to date, or the sleep after the last host
RECURSIVE Scan(_, _, _, _, _)
Scan(m, t, todo, d, clock) ==
  IF todo = <<>> THEN Position(m, [t EXCEPT !.pc = "sleep", !.todo = <<>>], NoRequest)
  ELSE LET h == m.networks[Head(todo).net].hosts[Head(todo).key]
       IN  IF IsUp2Date(h, clock) THEN Scan(m, t, Tail(todo), d, clock)
           ELSE Position(m, [t EXCEPT !.pc = "stale", !.todo = Tail(todo)],
                         Request("POST", NodeAt(h.ip), d))

\* the loop over bootstrap_peers from peer i on, the mesh m having document
\* d: the GET to peer i, or the loop over dm.all_hosts after the last peer
Bootstrap(m, t, ps, i, d, clock) ==
  IF i <= Len(ps)
  THEN Position(m, [t EXCEPT !.pc = "get", !.i = i, !.contacted = @ \cup {ps[i]}],
                Request("GET", ps[i], d))
  ELSE Scan(m, [t EXCEPT !.i = 0], HostList(d), d, clock)

\* the body of a response as response.json() gives it: ok = FALSE when it
\* raises, the body not being JSON
ResponseJson(resp) == [ok |-> resp.json.kind # "invalid", data |-> resp.json]

\* DataMesher(networks=data) for the decoded body of a response: ok = FALSE
\* when the constructor raises, data being no dict (TypeError) or a dict
\* whose values are dicts and no Network objects (AttributeError)
RawMesh(data) == [ok |-> data.kind = "object" /\ data.nets = <<>>, doc |-> EmptyDoc]

\* In the operators below a value that several parts of a step use (the
\* loaded document, the merged mesh, the mesh after its hosts were read) is
\* bound once, as the element of a singleton set.

\* the task starts, or wakes from asyncio.sleep(5), and begins a round
WakeOutcomes(n) ==
  UNION {{Outcome(Bootstrap(m, [task[n] EXCEPT !.contacted = {}], peers[n], 1, d, now),
                  files[n].state, [op |-> "wake", node |-> n]) :
            d \in Documents(m)} :
         m \in {Refresh(mesh[n], now)}}

\* a request has failed with error e: the next peer when the error is caught,
\* the end of the task when it is not; the event keeps the position of the
\* task and the response in hand
Failed(n, e, caught) ==
  IF caught
  THEN UNION {{Outcome(Bootstrap(m, task[n], peers[n], task[n].i + 1, d, now),
                       files[n].state, [op |-> "caught", node |-> n, error |-> e, at |-> task[n].pc]) :
                 d \in Documents(m)} :
              m \in {Refresh(mesh[n], now)}}
  ELSE {Outcome(Position(mesh[n], Dead(task[n], e, FALSE), NoRequest),
                files[n].state, [op |-> "died", node |-> n, error |-> e, at |-> task[n].pc, resp |-> wire[n].resp])}

\* the event of a merge by the reconciler
Merged(n, other, raised) ==
  [op |-> "merge", node |-> n, raised |-> raised, saved |-> ~raised,
   other |-> other, before |-> mesh[n], at |-> task[n].pc, resp |-> wire[n].resp]

\* dm.merge(other) has given r: the task ends when the merge raised, with
\* the part of the merge already applied left in the mesh
MergeRaised(n, r, other) ==
  Outcome(Position(r.m, Dead(task[n], "BadSignatureError", r.m.networks # mesh[n].networks),
                   NoRequest),
          files[n].state, Merged(n, other, TRUE))

\* the temporary file of a save cannot be created (the directory of the
\* state file refuses the write): NamedTemporaryFile raises OSError
Denied == [kind |-> "denied"]

SaveRaises(f) == f.tmp = Denied

\* dm.save() has raised after the merge gave mesh m, whose hosts the save had
\* read: nothing catches the OSError, and the task ends with the merge kept
\* in memory
SaveFailed(n, m, other) ==
  Outcome(Position(m, Dead(task[n], "OSError", FALSE), NoRequest),
          files[n].state,
          [op |-> "savefailed", node |-> n, other |-> other, before |-> mesh[n]])

\* the document other was loaded from the response to the GET: merge, save,
\* and the POST
GetMerge(n, other) ==
  UNION {IF ~r.ok THEN {MergeRaised(n, r, other)}
         ELSE IF SaveRaises(files[n]) THEN {SaveFailed(n, Refresh(r.m, now), other)}
         ELSE UNION {{Outcome(Position(m, [task[n] EXCEPT !.pc = "post"],
                                       Request("POST", wire[n].to, d)),
                              d, Merged(n, other, FALSE)) :
                        d \in Documents(m)} :
                     m \in {Refresh(r.m, now)}} :
         r \in {DataMesherMerge(mesh[n], other, mesh[n].key, now)}}

\* the GET to bootstrap peer i has ended: load, merge, save, and the POST
GetOutcomes(n) ==
  LET resp == wire[n].resp
      data == ResponseJson(resp)
  IN  CASE resp.kind = "fail" -> Failed(n, resp.error, resp.error \in Caught)
        [] resp.kind # "fail" /\ ~data.ok -> Failed(n, "ContentTypeError", FALSE)
        [] OTHER ->
             UNION {IF l.ok THEN GetMerge(n, l.doc) ELSE Failed(n, "KeyError", FALSE) :
                    l \in {Load(data.data)}}

\* the POST to bootstrap peer i has ended: its response is read and dropped
PostOutcomes(n) ==
  LET resp == wire[n].resp
  IN  CASE resp.kind = "fail" -> Failed(n, resp.error, resp.error \in Caught)
        [] resp.kind # "fail" /\ ~ResponseJson(resp).ok -> Failed(n, "ContentTypeError", FALSE)
        [] OTHER ->
             UNION {{Outcome(Bootstrap(m, task[n], peers[n], task[n].i + 1, d, now),
                             files[n].state, [op |-> "posted", node |-> n]) :
                       d \in Documents(m)} :
                    m \in {Refresh(mesh[n], now)}}

\* the POST to a host that is not up to date has ended: DataMesher(networks=
\* data), merge, save, and the next host
StaleOutcomes(n) ==
  LET resp  == wire[n].resp
      data  == ResponseJson(resp)
      other == RawMesh(data.data)
  IN  CASE resp.kind = "fail" -> Failed(n, resp.error, FALSE)
        [] resp.kind # "fail" /\ ~data.ok -> Failed(n, "ContentTypeError", FALSE)
        [] resp.kind # "fail" /\ data.ok /\ ~other.ok -> Failed(n, "AttributeError", FALSE)
        [] OTHER ->
             UNION {IF ~r.ok THEN {MergeRaised(n, r, other.doc)}
                    ELSE IF SaveRaises(files[n])
                    THEN {SaveFailed(n, Refresh(r.m, now), other.doc)}
                    ELSE UNION {{Outcome(Scan(m, task[n], task[n].todo, d, now),
                                         d, Merged(n, other.doc, FALSE)) :
                                   d \in Documents(m)} :
                                m \in {Refresh(r.m, now)}} :
                    r \in {DataMesherMerge(mesh[n], other.doc, mesh[n].key, now)}}

Apply(n, o) ==
  /\ mesh' = [mesh EXCEPT ![n] = o.m]
  /\ task' = [task EXCEPT ![n] = o.task]
  /\ wire' = [wire EXCEPT ![n] = o.wire]
  /\ files' = [files EXCEPT ![n].state = o.file]
  /\ ev' = o.ev
  /\ UNCHANGED <<peers, now>>
  /\ UNCHANGED meshvars
  /\ UNCHANGED app

Wake(n) ==
  /\ task[n].pc \in {"ready", "sleep"}
  /\ \E o \in WakeOutcomes(n) : Apply(n, o)

GetDone(n) ==
  /\ task[n].pc = "get"
  /\ wire[n].resp.kind # "none"
  /\ \E o \in GetOutcomes(n) : Apply(n, o)

PostDone(n) ==
  /\ task[n].pc = "post"
  /\ wire[n].resp.kind # "none"
  /\ \E o \in PostOutcomes(n) : Apply(n, o)

StaleDone(n) ==
  /\ task[n].pc = "stale"
  /\ wire[n].resp.kind # "none"
  /\ \E o \in StaleOutcomes(n) : Apply(n, o)

Reconciler(n) == Wake(n) \/ GetDone(n) \/ PostDone(n) \/ StaleDone(n)

\* what the handler of node s leaves for a request: the mesh, the response
\* and the event
Served(s, from, method, body) ==
  UNION {{[m |-> r.m, resp |-> Response(r.status, d),
           ev |-> [op |-> method, node |-> s, from |-> from, body |-> body,
                   status |-> r.status, resp |-> Response(r.status, d).json,
                   before |-> mesh[s], partial |-> task[s].partial]] :
            d \in Documents(r.m)} :
         r \in {Handle(mesh[s], method, body, now)}}

\* node s handles the request of node n's reconciler
Serve(s, n) ==
  /\ wire[n].method # "none"
  /\ wire[n].resp.kind = "none"
  /\ wire[n].to = s
  /\ \E o \in Served(s, n, wire[n].method, wire[n].body) :
       /\ mesh' = [mesh EXCEPT ![s] = o.m]
       /\ wire' = [wire EXCEPT ![n].resp = o.resp]
       /\ ev' = o.ev
  /\ UNCHANGED <<task, peers, files, now>>
  /\ UNCHANGED meshvars
  /\ UNCHANGED app

Server(s) == \E n \in Nodes : Serve(s, n)

\* time passes
Clock ==
  /\ now + ClockStep <= MaxClock
  /\ now' = now + ClockStep
  /\ ev' = [op |-> "clock"]
  /\ UNCHANGED <<mesh, task, peers, wire, files>>
  /\ UNCHANGED meshvars
  /\ UNCHANGED app

\* ------------------------------------------------- two nodes: C11

HostA == MkHost("KA", "::1", 1, NoNames, "good")

HostB == MkHost("KB", "::2", 1, NoNames, "good")

\* test_server: node A serves network "test" with host KA; node B has its
\* own host KB, an empty network "test" and A as its bootstrap peer
InitPair ==
  /\ NoMesh
  /\ now = 1
  /\ \E kb \in {NoKey, "KB"}, ha \in {h \in HostPool("KA") : h.ip = "::1" /\ Verify(h) = "true"} :
       mesh = [n \in Nodes |->
                 IF n = "A"
                 THEN NodeMesh([x \in {"test"} |->
                                  [Settings(1, <<>>) EXCEPT !.hosts = [k \in {"KA"} |-> ha]]],
                               {}, {}, NoKey)
                 ELSE NodeMesh([x \in {"test"} |->
                                  [Settings(1, <<>>) EXCEPT !.host_signing_keys = <<>>]],
                               {HostB}, {}, kb)]
  /\ task = [n \in Nodes |-> Task("ready", 0, <<>>, {}, "")]
  /\ peers = [n \in Nodes |-> IF n = "B" THEN <<"A">> ELSE <<>>]
  /\ wire = [n \in Nodes |-> NoRequest]
  /\ files = [n \in Nodes |-> Files(NoFile, NoFile)]
  /\ ev = [op |-> "init"]
  /\ app = [n \in Nodes |-> "up"]

NextPair ==
  \/ \E n \in Nodes : Reconciler(n)
  \/ \E s \in Nodes : Server(s)
  \/ Clock

\* both reconcilers and both servers are scheduled fairly
FairPair ==
  \A n \in Nodes : WF_vars(Reconciler(n)) /\ WF_vars(Server(n))

SpecPair == InitPair /\ [][NextPair]_vars /\ FairPair

\* the keys of all_hosts of node n
AllHostKeys(n) ==
  UNION {DOMAIN Refresh(mesh[n], now).networks[x].hosts : x \in DOMAIN mesh[n].networks}

\* C11: two-node convergence: with no connection failures and under fair
\* scheduling of both reconcilers and both servers, a state is eventually
\* reached in which all_hosts of both A and B contains both KA and KB.
C11_Converges == <>(\A n \in Nodes : {"KA", "KB"} \subseteq AllHostKeys(n))

\* ----------------------------------------- a node among peers and clients

\* Node B lists two bootstrap peers: a peer X outside the two nodes, and A;
\* node A lists B.  The requests of a reconciler can fail, and X answers with
\* any body.

BootstrapPeers(n) == IF n = "B" THEN <<"X", "A">> ELSE <<"B">>

\* the host records a peer or a client sends: a newer record of KA, and a
\* newer record of KB signed by its key or carrying a signature its key did
\* not make
SentHosts ==
  {MkHost("KA", "::1", MaxTime, NoNames, "good")}
    \cup {MkHost("KB", "::2", MaxTime, NoNames, kind) : kind \in {"good", "forged"}}

\* the document of network "test" with the hosts hs
SentDoc(hs) ==
  JsonObject(<<[key |-> "test",
                value |-> LET net == NetDoc(Settings(1, <<>>), hs)
                          IN  JsonNetwork(net, net.order)]>>)

\* the well-formed documents sent: no network, or network "test" with up to
\* two hosts
SentDocs == {JsonObject(<<>>)} \cup {SentDoc(hs) : hs \in HostSeqs(SentHosts) \ {<<>>}}

\* a document that lacks a field: network "test" without "hosts"
Incomplete ==
  JsonObject(<<[key |-> "test", value |-> Without(SentDoc(<<>>).nets[1].value, "hosts")]>>)

\* the bodies of the responses of peer X
PeerBodies == SentDocs \cup {InvalidJson, [kind |-> "list"], Incomplete}

\* the bodies of the POSTs of clients
ClientBodies ==
  {JsonBody(j) : j \in {SentDoc(<<h>>) : h \in {x \in SentHosts : x.public_key = "KB"}}
                         \cup {InvalidJson, Incomplete}}
    \cup {FormBody({"test"})}

InitNode ==
  /\ NoMesh
  /\ now = 1
  /\ mesh = [n \in Nodes |->
               IF n = "A"
               THEN NodeMesh([x \in {"test"} |->
                                [Settings(1, <<>>) EXCEPT !.hosts = [k \in {"KA"} |-> HostA]]],
                             {}, {}, NoKey)
               ELSE NodeMesh([x \in {"test"} |->
                                [Settings(1, <<>>) EXCEPT !.host_signing_keys = <<>>]],
                             {HostB}, {}, "KB")]
  /\ task = [n \in Nodes |-> Task("ready", 0, <<>>, {}, "")]
  /\ peers = [n \in Nodes |-> BootstrapPeers(n)]
  /\ wire = [n \in Nodes |-> NoRequest]
  /\ files = [n \in Nodes |-> Files(NoFile, NoFile)]
  /\ ev = [op |-> "init"]
  /\ app = [n \in Nodes |-> "up"]

\* the request of node n's reconciler fails: no connection, no answer in
\* time, or a URL that cannot be parsed
Fail(n) ==
  /\ wire[n].method # "none"
  /\ wire[n].resp.kind = "none"
  /\ \E e \in ConnectionErrors : wire' = [wire EXCEPT ![n].resp = Failure(e)]
  /\ ev' = [op |-> "fail", node |-> n]
  /\ UNCHANGED <<mesh, task, peers, files, now>>
  /\ UNCHANGED meshvars
  /\ UNCHANGED app

\* peer X answers the request of node n's reconciler
PeerAnswer(n) ==
  /\ wire[n].method # "none"
  /\ wire[n].resp.kind = "none"
  /\ wire[n].to = "X"
  /\ \E j \in PeerBodies : wire' = [wire EXCEPT ![n].resp = Response(200, j)]
  /\ ev' = [op |-> "answer", node |-> n]
  /\ UNCHANGED <<mesh, task, peers, files, now>>
  /\ UNCHANGED meshvars
  /\ UNCHANGED app

\* node s handles the request of a client
ClientRequest(s) ==
  /\ \E method \in {"GET", "POST"} :
       \E body \in IF method = "GET" THEN {JsonBody(JsonObject(<<>>))} ELSE ClientBodies :
         \E o \in Served(s, "client", method, body) :
           /\ mesh' = [mesh EXCEPT ![s] = o.m]
           /\ ev' = o.ev
  /\ UNCHANGED <<task, peers, wire, files, now>>
  /\ UNCHANGED meshvars
  /\ UNCHANGED app

NextNode ==
  \/ \E n \in Nodes : Reconciler(n)
  \/ \E s \in Nodes : Server(s)
  \/ \E n \in Nodes : Fail(n)
  \/ \E n \in Nodes : PeerAnswer(n)
  \/ Clock

SpecNode == InitNode /\ [][NextNode]_vars

\* the two nodes of test_server, and clients that send requests to them
NextClient ==
  \/ \E n \in Nodes : Reconciler(n)
  \/ \E s \in Nodes : Server(s)
  \/ \E s \in Nodes : ClientRequest(s)
  \/ Clock

SpecClient == InitPair /\ [][NextClient]_vars

\* ------------------------------------------------- the POST handler: C12

\* the hosts of the mesh document j, by network
SentNetworks(j) == Load(j).doc.nets

\* the networks nets hold host h of network x with a record at least as new
Holds(nets, x, h) ==
  /\ x \in DOMAIN nets
  /\ h.public_key \in DOMAIN nets[x].hosts
  /\ nets[x].hosts[h.public_key].last_seen >= h.last_seen

\* every verifying host of document j that is unknown to the networks
\* before, or newer than their record, is held by the networks after
MergedInto(j, before, after) ==
  \A x \in DOMAIN SentNetworks(j) : \A k \in DOMAIN SentNetworks(j)[x].hosts :
    LET h == SentNetworks(j)[x].hosts[k]
    IN  (Verify(h) = "true" /\ ~Holds(before, x, h)) => Holds(after, x, h)

\* the same for a loaded document
MergeKept(other, before, after) ==
  \A x \in DOMAIN other.nets : \A k \in DOMAIN other.nets[x].hosts :
    LET h == other.nets[x].hosts[k]
    IN  (Verify(h) = "true" /\ ~Holds(before, x, h)) => Holds(after, x, h)

\* C12: handling a POST whose body is a well-formed mesh document merges
\* that document into the server's mesh: every verifying host of the posted
\* document that is unknown to the server, or newer than its record, is in
\* the server's mesh when the handler returns, and the response body is the
\* server's document after the merge.
C12_PostMerges ==
  (ev.op = "POST" /\ ev.body.ctype = "json" /\ WellFormed(ev.body.text)) =>
    /\ MergedInto(ev.body.text, ev.before.networks, mesh[ev.node].networks)
    /\ ev.resp \in Documents(mesh[ev.node])

\* ------------------------------------------------------ persistence: C13

\* C13: the mesh is persisted after every successful merge: when a merge by
\* the POST handler or by the reconciler has completed, the state file holds
\* the transport document of the in-memory mesh at the end of the operation.
C13_SavedAfterMerge ==
  ((ev.op = "POST" /\ ev.status = 200) \/ (ev.op = "merge" /\ ~ev.raised)) =>
    files[ev.node].state \in Documents(mesh[ev.node])

\* ---------------------------------------------------- serialisation: C14

\* C14: mutations of the mesh by the POST handler and the reconciler are
\* serialised (a step of the model runs a handler, or the reconciler from one
\* await to the next, with each merge and save inside one step), and no GET
\* or POST response is built from a mesh in which a merge has been only
\* partly applied.
C14_NoPartialMeshServed == ev.op \in {"GET", "POST"} => ~ev.partial

\* ---------------------------------------------------- peer failures: C15

\* C15: a failure to reach a peer never stops the reconciler: no connection
\* error, timeout or invalid URL of a request to a bootstrap peer or to a
\* stale host ends the reconciler task.
C15_PeerFailureNeverStops ==
  \A n \in Nodes : ~(task[n].pc = "dead" /\ task[n].cause \in ConnectionErrors)

\* --------------------------------------------- the bootstrap list: C16

\* C16: the bootstrap peer list is never changed by the reconciler: it equals
\* the list configured at startup, and every peer in it is contacted in every
\* round (a round being past its requests to the bootstrap peers, or ended).
C16_BootstrapListKept ==
  \A n \in Nodes :
    /\ peers[n] = BootstrapPeers(n)
    /\ task[n].pc \in {"stale", "sleep", "dead"} => task[n].contacted = Range(peers[n])

\* -------------------------------------------------- stale hosts: C17

\* C17: when a stale host answers the POST of the node's document
\* successfully, the response is decoded as a mesh document, merged and
\* saved: afterwards the node's mesh holds the verifying hosts of the
\* response and the reconciler continues.
C17_StaleAnswerMerged ==
  (/\ ev.op \in {"died", "merge"}
   /\ ev.at = "stale"
   /\ ev.resp.kind = "ok"
   /\ ev.resp.status = 200
   /\ WellFormed(ev.resp.json)) =>
    /\ task[ev.node].pc # "dead"
    /\ MergedInto(ev.resp.json, ev.before.networks, mesh[ev.node].networks)

\* ------------------------------------------------ undecodable POSTs: C20

\* C20: a POST whose body cannot be decoded as a mesh document is rejected as
\* a whole: the handler answers 400 and the server's mesh is what it was
\* before the request.
C20_BadBodyRejected ==
  (ev.op = "POST" /\ ~(ev.body.ctype = "json" /\ WellFormed(ev.body.text))) =>
    /\ ev.status = 400
    /\ mesh[ev.node] = ev.before

\* ------------------------------------------------------------ save: C18

\* DataMesher.save in steps: the data is built and the temporary file is
\* created empty in the directory of the state file ("created"), json.dump
\* writes the text ("writing": a part of it is in the file; "written": the
\* file is closed with all of it), and os.rename puts the temporary file at
\* the path of the state file.  While a save runs, wire[n] holds its data.

EmptyFile == [kind |-> "empty"]

\* a file that holds a part of the text of document d
Partial(d) == [kind |-> "partial", of |-> d]

\* a path that holds no file, or a whole document
Complete(f) == f.kind \in {"missing", "object"}

Saving(d) == [method |-> "save", data |-> d]

\* NamedTemporaryFile(dir=self.state_file.parent, delete=False)
TempCreated(f) == [f EXCEPT !.tmp = EmptyFile]

\* a write to an open file puts the text at another path than the temporary
\* file's
PartWritten_InPlace(f, d) == [f EXCEPT !.state = Partial(d)]

\* open(f.name, "w+") and json.dump(data, file): a part of the text is in
\* the temporary file
PartWritten(f, d) == [f EXCEPT !.tmp = Partial(d)]

\* the file is closed: all of the text is in the temporary file
AllWritten(f, d) == [f EXCEPT !.tmp = d]

\* os.rename(f.name, str(self.state_file))
Renamed(f) == [f EXCEPT !.state = f.tmp, !.tmp = NoFile]

\* node B runs and saves to its state file; node A is not started
InitSave ==
  /\ NoMesh
  /\ now = 1
  /\ mesh = [n \in Nodes |->
               IF n = "A"
               THEN NodeMesh([x \in {"test"} |->
                                [Settings(1, <<>>) EXCEPT !.hosts = [k \in {"KA"} |-> HostA]]],
                             {}, {}, NoKey)
               ELSE NodeMesh([x \in {"test"} |->
                                [Settings(1, <<>>) EXCEPT !.host_signing_keys = <<>>]],
                             {HostB}, {}, "KB")]
  /\ task = [n \in Nodes |-> Task(IF n = "B" THEN "idle" ELSE "off", 0, <<>>, {}, "")]
  /\ peers = [n \in Nodes |-> <<>>]
  /\ wire = [n \in Nodes |-> NoRequest]
  /\ files = [n \in Nodes |-> Files(NoFile, NoFile)]
  /\ ev = [op |-> "init"]
  /\ app = [n \in Nodes |-> "up"]

\* between two saves the mesh of node n merges a document
Change(n) ==
  /\ task[n].pc = "idle"
  /\ \E j \in SentDocs :
       \E r \in {DataMesherMerge(mesh[n], Load(j).doc, mesh[n].key, now)} :
         /\ r.ok
         /\ mesh' = [mesh EXCEPT ![n] = r.m]
  /\ ev' = [op |-> "change", node |-> n]
  /\ UNCHANGED <<task, peers, wire, files, now>>
  /\ UNCHANGED meshvars
  /\ UNCHANGED app

SaveCreate(n) ==
  /\ task[n].pc = "idle"
  /\ \E m \in {Refresh(mesh[n], now)} : \E d \in Documents(m) :
       /\ mesh' = [mesh EXCEPT ![n] = m]
       /\ wire' = [wire EXCEPT ![n] = Saving(d)]
  /\ task' = [task EXCEPT ![n].pc = "created"]
  /\ files' = [files EXCEPT ![n] = TempCreated(@)]
  /\ ev' = [op |-> "save", node |-> n, step |-> "create-temp"]
  /\ UNCHANGED <<peers, now>>
  /\ UNCHANGED meshvars
  /\ UNCHANGED app

SaveWrite(n) ==
  /\ task[n].pc \in {"created", "writing"}
  /\ task' = [task EXCEPT ![n].pc = IF @ = "created" THEN "writing" ELSE "written"]
  /\ files' = [files EXCEPT ![n] = IF task[n].pc = "created"
                                   THEN PartWritten(@, wire[n].data)
                                   ELSE AllWritten(@, wire[n].data)]
  /\ ev' = [op |-> "save", node |-> n, step |-> "write-temp"]
  /\ UNCHANGED <<mesh, peers, wire, now>>
  /\ UNCHANGED meshvars
  /\ UNCHANGED app

SaveRename(n) ==
  /\ task[n].pc = "written"
  /\ task' = [task EXCEPT ![n].pc = "idle"]
  /\ files' = [files EXCEPT ![n] = Renamed(@)]
  /\ wire' = [wire EXCEPT ![n] = NoRequest]
  /\ ev' = [op |-> "save", node |-> n, step |-> "rename"]
  /\ UNCHANGED <<mesh, peers, now>>
  /\ UNCHANGED meshvars
  /\ UNCHANGED app

\* the save is interrupted before the rename: the temporary file stays as
\* it is (delete=False)
Interrupt(n) ==
  /\ task[n].pc \in {"created", "writing", "written"}
  /\ task' = [task EXCEPT ![n].pc = "idle"]
  /\ wire' = [wire EXCEPT ![n] = NoRequest]
  /\ ev' = [op |-> "interrupt", node |-> n, data |-> wire[n].data]
  /\ UNCHANGED <<mesh, peers, files, now>>
  /\ UNCHANGED meshvars
  /\ UNCHANGED app

\* another process reads the path of the state file
ReadState(n) ==
  /\ ev' = [op |-> "read", node |-> n, content |-> files[n].state]
  /\ UNCHANGED <<mesh, task, peers, wire, files, now>>
  /\ UNCHANGED meshvars
  /\ UNCHANGED app

NextSave ==
  \E n \in Nodes :
    \/ Change(n)
    \/ SaveCreate(n)
    \/ SaveWrite(n)
    \/ SaveRename(n)
    \/ Interrupt(n)
    \/ ReadState(n)

SpecSave == InitSave /\ [][NextSave]_vars

\* C18: save is atomic with respect to the state file: the path of the state
\* file changes only in the rename, where it goes from the whole previous
\* document to the whole new one, so at every step before the rename (and
\* after an interrupted save) it holds the previous document; and a reader of
\* the path never sees a part of a document.
C18_SaveAtomic ==
  [][\A n \in Nodes :
       /\ \/ files'[n].state = files[n].state
          \/ /\ task[n].pc = "written"
             /\ files'[n].state = wire[n].data
             /\ Complete(wire[n].data)
       /\ (ev'.op = "read" /\ ev'.node = n) => Complete(ev'.content)]_vars

\* a save was interrupted with a part of the new document in the temporary
\* file, and the state file holds the whole document of an earlier save
C18_Witness ==
  /\ ev.op = "interrupt"
  /\ files[ev.node].tmp = Partial(ev.data)
  /\ files[ev.node].state.kind = "object"
  /\ files[ev.node].state # ev.data

\* ------------------------------------------------- a failing save: C21

\* the directory of node n's state file starts or stops refusing writes
DiskChange(n) ==
  /\ files' = [files EXCEPT ![n].tmp = IF @ = Denied THEN NoFile ELSE Denied]
  /\ ev' = [op |-> "disk", node |-> n]
  /\ UNCHANGED <<mesh, task, peers, wire, now>>
  /\ UNCHANGED meshvars
  /\ UNCHANGED app

NextDisk ==
  \/ \E n \in Nodes : Reconciler(n)
  \/ \E s \in Nodes : Server(s)
  \/ \E n \in Nodes : DiskChange(n)
  \/ Clock

\* the two nodes of test_server with disks that can fail
SpecDisk == InitPair /\ [][NextDisk]_vars

\* C21: when save fails with an I/O error after a merge in the reconciler,
\* the in-memory result of the merge is kept and the reconciler keeps
\* running, so that the save is attempted again in a later round.
C21_SaveErrorSurvived ==
  ev.op = "savefailed" =>
    /\ MergeKept(ev.other, ev.before.networks, mesh[ev.node].networks)
    /\ task[ev.node].pc # "dead"

\* ------------------------------------------- datetimes: C22, C23, C29

\* A Host or Hostname object holds datetimes, which are finer than the whole
\* seconds its signed content and its document carry.  Here last_seen,
\* signed_at and the clock count ticks, TicksPerSecond to the second.

TicksPerSecond == 2

\* the datetimes of the seconds 1 .. MaxTime
Ticks == TicksPerSecond .. (TicksPerSecond * (MaxTime + 1) - 1)

\* int(d.timestamp())
Timestamp(d) == d \div TicksPerSecond

\* a Hostname as data_to_sign and __json__ read it: signed_at in seconds
WireName(hn) == [hn EXCEPT !.signed_at = IF @ = 0 THEN 0 ELSE Timestamp(@)]

\* a Host as data_to_sign reads it: last_seen in seconds
Wire(h) ==
  [h EXCEPT !.last_seen = Timestamp(@),
            !.hostnames = [n \in DOMAIN @ |-> WireName(@[n])]]

\* Host.verify of a host that holds datetimes
VerifyAt(h) == Verify(Wire(h))

\* Host.update_signature at datetime d
UpdateSignatureAt(h, k, d) ==
  LET h1 == [h EXCEPT !.last_seen = d]
  IN  [h1 EXCEPT !.signature = Sign(k, Wire(h1))]

\* Hostname.update_signature at datetime d: signed_at is assigned, then
\* data_to_sign() is signed while self.signature is still the old one
HostnameUpdateSignature(hn, k, d) ==
  LET h1 == [hn EXCEPT !.signed_at = d]
      c  == HostnameDataToSign(WireName(h1))
  IN  [h1 EXCEPT !.signature = HostnameSign(k, c.hostname, c.signed_at)]

\* the hostname maps of a Host object: none, a tentative name, a name with
\* signed_at and no signature, a signed name
DatedNames ==
  {Hostname(name, 0, NoSig) : name \in Names}
    \cup {Hostname(name, d, NoSig) : name \in Names, d \in Ticks}
    \cup {Hostname(name, d, HostnameSign("KA", name, Timestamp(d))) : name \in Names, d \in Ticks}

DatedNameMaps == {NoNames} \cup {[n \in {hn.hostname} |-> hn] : hn \in DatedNames}

\* the Host objects of key KA, each with the signature of its key
DatedHosts ==
  {LET h == [public_key |-> "KA", ip |-> ip, port |-> Port, last_seen |-> d,
             hostnames |-> hn, signature |-> [signer |-> "KA", msg |-> <<>>]]
   IN  [h EXCEPT !.signature = Sign("KA", Wire(h))] :
     ip \in IPs, d \in Ticks, hn \in DatedNameMaps}

\* the values a field of a Host object can be given
FieldValues(f) ==
  CASE f = "ip"        -> IPs
    [] f = "port"      -> {Port, 0}
    [] f = "last_seen" -> Ticks
    [] OTHER           -> DatedNameMaps

\* host h with field f set to v
WithField(h, f, v) ==
  CASE f = "ip"        -> [h EXCEPT !.ip = v]
    [] f = "port"      -> [h EXCEPT !.port = v]
    [] f = "last_seen" -> [h EXCEPT !.last_seen = v]
    [] OTHER           -> [h EXCEPT !.hostnames = v]

\* the object in hand: a Host and a Hostname, as they were before the last
\* call and as they are
Objects(op, h0, h, n0, n) == [op |-> op, prev |-> h0, host |-> h, prevname |-> n0, name |-> n]

InitSign ==
  /\ NoMesh
  /\ now \in Ticks
  /\ mesh = <<>>
  /\ task = <<>>
  /\ peers = <<>>
  /\ wire = <<>>
  /\ files = <<>>
  /\ \E h \in DatedHosts, n \in DatedNames : ev = Objects("new", h, h, n, n)
  /\ app = <<>>

\* h.update_signature(k) with the key of the host
HostSign ==
  /\ ev' = Objects("sign", ev.host, UpdateSignatureAt(ev.host, ev.host.public_key, now),
                   ev.name, ev.name)
  /\ UNCHANGED <<mesh, task, peers, wire, files, now>>
  /\ UNCHANGED meshvars
  /\ UNCHANGED app

\* one field of the host just signed is given another value
HostChange ==
  /\ ev.op = "sign"
  /\ \E f \in {"ip", "port", "last_seen", "hostnames"} :
       \E v \in FieldValues(f) :
         /\ WithField(ev.host, f, v) # ev.host
         /\ ev' = Objects("change", ev.host, WithField(ev.host, f, v), ev.name, ev.name)
  /\ UNCHANGED <<mesh, task, peers, wire, files, now>>
  /\ UNCHANGED meshvars
  /\ UNCHANGED app

\* n.update_signature(k)
NameSign ==
  /\ ev' = Objects("name", ev.host, ev.host, ev.name, HostnameUpdateSignature(ev.name, "KA", now))
  /\ UNCHANGED <<mesh, task, peers, wire, files, now>>
  /\ UNCHANGED meshvars
  /\ UNCHANGED app

\* datetime.now() reads the wall clock, which can be set
WallClock ==
  /\ \E d \in Ticks \ {now} : now' = d
  /\ ev' = Objects("clock", ev.host, ev.host, ev.name, ev.name)
  /\ UNCHANGED <<mesh, task, peers, wire, files>>
  /\ UNCHANGED meshvars
  /\ UNCHANGED app

NextSign == HostSign \/ HostChange \/ NameSign \/ WallClock

SpecSign == InitSign /\ [][NextSign]_vars

\* C22: Host sign/verify round-trip: h.verify() is true immediately after
\* h.update_signature(k) with the key of h, and after ip, port, last_seen or
\* the hostnames map is changed without re-signing, h.verify() is not true.
C22_HostRoundTrip ==
  /\ ev.op = "sign" => VerifyAt(ev.host) = "true"
  /\ ev.op = "change" => VerifyAt(ev.host) # "true"

\* C23: Hostname sign/verify round-trip: after n.update_signature(k) the
\* content that was signed is the content verification recomputes,
\* {name, signed_at}, under the key k.
C23_HostnameRoundTrip ==
  ev.op = "name" =>
    /\ ev.name.signature.signer = "KA"
    /\ ev.name.signature.hostname = HostnameDataToSign(WireName(ev.name)).hostname
    /\ ev.name.signature.signed_at = HostnameDataToSign(WireName(ev.name)).signed_at

\* C29: Host.update_signature is monotone: after h.update_signature(k) the
\* new last_seen is strictly greater than the previous one, also when the
\* clock reads a value less than or equal to it.
C29_UpdateMonotone == ev.op = "sign" => ev.host.last_seen > ev.prev.last_seen

\* ------------------------------------------------ save and load: C24

\* dm.save(), then DataMesher(state_file=path): the networks save read, the
\* document it wrote, and the networks of the mesh built from the file
SaveLoad ==
  /\ \E m \in {Refresh(NodeMesh(networks, host, selfIn, key), now)} :
       \E d \in Documents(m) :
         \E r \in {Construct(d, NoNetworks)} :
           /\ networks' = m.networks
           /\ host' = m.host
           /\ selfIn' = m.selfIn
           /\ ev' = [op |-> "reload", saved |-> m.networks, file |-> d,
                     raised |-> ~r.ok, loaded |-> r.networks]
  /\ last' = Op("save", FALSE)
  /\ UNCHANGED <<key, now, applied, mesh, task, peers, wire, files, app>>

NextReload ==
  \/ \E d \in MeshDocs : Merge(d)
  \/ Tick
  \/ SaveLoad

SpecReload == Init /\ [][NextReload]_vars

\* the mesh built from the file has the networks, settings and hosts that
\* were saved
SameAsSaved == ~ev.raised /\ ev.loaded = ev.saved

\* C24: save/load round-trip: the mesh constructed from the file written by
\* m.save() has the same networks with the same settings and the same hosts
\* with the same ip, port, last_seen, hostnames and signatures, and every
\* loaded host verifies.
C24_SaveLoadRoundTrip ==
  last.op = "save" =>
    /\ SameAsSaved
    /\ \A n \in DOMAIN ev.loaded : \A k \in DOMAIN ev.loaded[n].hosts :
         Verify(ev.loaded[n].hosts[k]) = "true"

\* ------------------------------------------------- self-refresh: C25

\* every network of document j carries the record of node n's self host with
\* last_seen at the present time and a signature that verifies
SelfFresh(n, j) ==
  mesh[n].host # {} =>
    \A i \in DOMAIN j.nets :
      \E x \in DOMAIN j.nets[i].value.hosts :
        LET e == j.nets[i].value.hosts[x]
        IN  /\ e.key = SelfHost(mesh[n]).public_key
            /\ e.value.last_seen = now
            /\ Verify(LoadHost(e.key, e.value)) = "true"

\* C25: self-refresh: whenever a mesh that has a self host serialises its
\* view, for a GET or POST response, for a request of the reconciler or for
\* save, the record of the self host in the emitted document carries last_seen
\* equal to the time of serialisation and a signature that verifies.
C25_SelfRefresh ==
  /\ (ev.op \in {"GET", "POST"} /\ ev.status = 200) => SelfFresh(ev.node, ev.resp)
  /\ (ev.op \in {"wake", "caught", "posted", "merge"} /\ wire[ev.node].method # "none") =>
       SelfFresh(ev.node, wire[ev.node].body.text)
  /\ (ev.op = "merge" /\ ~ev.raised) => SelfFresh(ev.node, files[ev.node].state)

\* ---------------------------------------------------- staleness: C26

\* node n's reconciler has just sent the POST of its loop over dm.all_hosts
StaleSent(n) ==
  /\ ev.op \in {"wake", "caught", "posted", "merge"}
  /\ ev.node = n
  /\ task[n].pc = "stale"
  /\ wire[n].method = "POST"

\* the hosts of node n that a request to node p reaches
HostsAt(n, p) ==
  UNION {{mesh[n].networks[x].hosts[k] : k \in {j \in DOMAIN mesh[n].networks[x].hosts : NodeAt(mesh[n].networks[x].hosts[j].ip) = p}} : x \in DOMAIN mesh[n].networks}

\* C26: the reconciler contacts a host directly only when now - last_seen is
\* more than 60 seconds: a host whose last_seen is 60 seconds old or less,
\* exactly 60 included, is not a target.
C26_StaleOver60 ==
  \A n \in Nodes :
    StaleSent(n) => \E h \in HostsAt(n, wire[n].to) : now - h.last_seen > UpToDateSeconds

\* --------------------------------------- the reconciler's life: C27

\* Task.cancel(): CancelledError is thrown into the task when the event loop
\* next resumes it; a task that is done is left as it is
Cancel(t) == IF t.pc = "dead" THEN t ELSE [t EXCEPT !.cause = "CancelledError"]

CancelRequested(t) == t.pc # "dead" /\ t.cause = "CancelledError"

\* both applications of test_server built, neither started
InitLife ==
  /\ NoMesh
  /\ now = 1
  /\ mesh = [n \in Nodes |->
               IF n = "A"
               THEN NodeMesh([x \in {"test"} |->
                                [Settings(1, <<>>) EXCEPT !.hosts = [k \in {"KA"} |-> HostA]]],
                             {}, {}, NoKey)
               ELSE NodeMesh([x \in {"test"} |->
                                [Settings(1, <<>>) EXCEPT !.host_signing_keys = <<>>]],
                             {HostB}, {}, "KB")]
  /\ task = [n \in Nodes |-> Task("off", 0, <<>>, {}, "")]
  /\ peers = [n \in Nodes |-> IF n = "B" THEN <<"A">> ELSE <<>>]
  /\ wire = [n \in Nodes |-> NoRequest]
  /\ files = [n \in Nodes |-> Files(NoFile, NoFile)]
  /\ ev = [op |-> "init"]
  /\ app = [n \in Nodes |-> "new"]

\* background_tasks up to its yield: the reconciler task is created
Startup(n) ==
  /\ app[n] = "new"
  /\ app' = [app EXCEPT ![n] = "up"]
  /\ task' = [task EXCEPT ![n] = Task("ready", 0, <<>>, {}, "")]
  /\ ev' = [op |-> "startup", node |-> n]
  /\ UNCHANGED <<mesh, peers, wire, files, now>>
  /\ UNCHANGED meshvars

\* background_tasks after its yield: app[CLIENT].cancel(), and the clean-up
\* of the application is complete
Shutdown(n) ==
  /\ app[n] = "up"
  /\ app' = [app EXCEPT ![n] = "down"]
  /\ task' = [task EXCEPT ![n] = Cancel(task[n])]
  /\ ev' = [op |-> "shutdown", node |-> n]
  /\ UNCHANGED <<mesh, peers, wire, files, now>>
  /\ UNCHANGED meshvars

\* the event loop resumes the cancelled task: CancelledError is raised at
\* its await and leaves create_client, which catches no such exception
Cancelled(n) ==
  /\ CancelRequested(task[n])
  /\ task' = [task EXCEPT ![n] = Dead(task[n], "CancelledError", task[n].partial)]
  /\ wire' = [wire EXCEPT ![n] = NoRequest]
  /\ ev' = [op |-> "cancelled", node |-> n]
  /\ UNCHANGED <<mesh, peers, files, now>>
  /\ UNCHANGED meshvars
  /\ UNCHANGED app

\* the reconciler runs as long as no cancellation is pending
Run(n) == ~CancelRequested(task[n]) /\ Reconciler(n)

\* the handlers answer while the application is up
Listen(s) == app[s] = "up" /\ Server(s)

\* nothing listens at the address of a request
Refused(n) ==
  /\ wire[n].method # "none"
  /\ wire[n].resp.kind = "none"
  /\ app[wire[n].to] # "up"
  /\ wire' = [wire EXCEPT ![n].resp = Failure("ClientConnectorError")]
  /\ ev' = [op |-> "fail", node |-> n]
  /\ UNCHANGED <<mesh, task, peers, files, now>>
  /\ UNCHANGED meshvars
  /\ UNCHANGED app

NextLife ==
  \/ \E n \in Nodes : Startup(n)
  \/ \E n \in Nodes : Run(n)
  \/ \E n \in Nodes : Listen(n)
  \/ \E n \in Nodes : Refused(n)
  \/ \E n \in Nodes : Shutdown(n)
  \/ \E n \in Nodes : Cancelled(n)
  \/ Clock

SpecLife == InitLife /\ [][NextLife]_vars

\* the reconciler of node n sends no request, merges nothing and saves nothing
Quiet(n) ==
  /\ mesh'[n] = mesh[n]
  /\ files'[n] = files[n]
  /\ \/ wire'[n] = NoRequest
     \/ /\ wire[n].method # "none"
        /\ wire'[n].method = wire[n].method
        /\ wire'[n].to = wire[n].to
        /\ wire'[n].body = wire[n].body

\* C27: the reconciler's life is tied to the server: its task exists once the
\* application has started, and once the shutdown of the application has
\* completed the task has terminated.
C27_ReconcilerEndsWithServer ==
  \A n \in Nodes :
    /\ app[n] # "new" => task[n].pc # "off"
    /\ app[n] = "down" => task[n].pc = "dead"

\* after the shutdown the reconciler does nothing more
AfterShutdownQuiet == [][\A n \in Nodes : app[n] = "down" => Quiet(n)]_vars

\* ------------------------------------------------- the DNS export: C28

\* the line of get_hostnames for one hostname of one host of one network,
\* without the network's tld
DnsEntry_BareName(net, h, hn) == [hostname |-> hn.hostname, ip |-> h.ip]

\* the line of get_hostnames for hostname object hn of host h of network net
DnsEntry(net, h, hn) == [hostname |-> hn.hostname \o "." \o net.tld, ip |-> h.ip]

\* the loop over the hostnames of host h
RECURSIVE HostEntries(_, _, _)
HostEntries(net, h, names) ==
  IF names = <<>> THEN <<>>
  ELSE <<DnsEntry(net, h, h.hostnames[Head(names)])>> \o HostEntries(net, h, Tail(names))

\* the loop over the hosts of network net, iterated in the order ks
RECURSIVE NetEntries(_, _)
NetEntries(net, ks) ==
  IF ks = <<>> THEN <<>>
  ELSE LET h == net.hosts[Head(ks)]
       IN  HostEntries(net, h, CHOOSE o \in Orders(DOMAIN h.hostnames) : TRUE)
             \o NetEntries(net, Tail(ks))

\* DataMesher.get_hostnames of a mesh whose hosts have been read, its networks
\* iterated in the order no and the hosts of each in the order ho
RECURSIVE GetHostnames(_, _, _)
GetHostnames(m, no, ho) ==
  IF no = <<>> THEN <<>>
  ELSE NetEntries(m.networks[Head(no)], ho[Head(no)]) \o GetHostnames(m, Tail(no), ho)

\* a DNS file: the lines written, and whether the last one is cut short
DnsText(lines) == [kind |-> "lines", lines |-> lines]

DnsFiles(state, dns, set) ==
  [state |-> state, tmp |-> NoFile, dns |-> dns, dnstmp |-> NoFile, dns_file |-> set]

\* NamedTemporaryFile(dir=self.dns_file.parent, delete=False)
DnsTempCreated(f) == [f EXCEPT !.dnstmp = EmptyFile]

\* open(f.name, "w+") and the first writes: a part of the lines is in the
\* temporary file
DnsPartWritten(f, lines) == [f EXCEPT !.dnstmp = Partial(lines)]

\* the file is closed: all lines are in the temporary file
DnsAllWritten(f, lines) == [f EXCEPT !.dnstmp = DnsText(lines)]

\* os.rename(f.name, str(self.dns_file))
DnsRenamed(f) == [f EXCEPT !.dns = f.dnstmp, !.dnstmp = NoFile]

\* the hosts of key KA that a document can bring: at either address, without
\* a hostname, with a tentative one and with a signed one
DnsHosts ==
  {MkHost("KA", ip, MaxTime, hn, "good") :
     ip \in IPs,
     hn \in {NoNames, [n \in {"wiki"} |-> Hostname("wiki", 0, NoSig)],
             [n \in {"wiki"} |-> Hostname("wiki", 1, HostnameSign("KA", "wiki", 1))]}}

DnsDocs == {SentDoc(<<h>>) : h \in DnsHosts}

\* node B serves the networks "test" and "lan", its own host claims the
\* hostname wiki, and it is started with or without a dns_file
InitDns ==
  /\ NoMesh
  /\ now = 1
  /\ mesh = [n \in Nodes |->
               IF n = "A"
               THEN NodeMesh(NoNetworks, {}, {}, NoKey)
               ELSE NodeMesh([x \in {"test", "lan"} |->
                                [Settings(1, <<>>) EXCEPT !.tld = x, !.host_signing_keys = <<>>]],
                             {MkHost("KB", "::2", 1, [w \in {"wiki"} |-> Hostname("wiki", 0, NoSig)], "good")},
                             {}, "KB")]
  /\ task = [n \in Nodes |-> Task(IF n = "B" THEN "idle" ELSE "off", 0, <<>>, {}, "")]
  /\ peers = [n \in Nodes |-> <<>>]
  /\ wire = [n \in Nodes |-> NoRequest]
  /\ \E set \in BOOLEAN : files = [n \in Nodes |-> DnsFiles(NoFile, NoFile, set)]
  /\ ev = [op |-> "init"]
  /\ app = [n \in Nodes |-> "up"]

\* between two saves the mesh of node n merges a document
DnsChange(n) ==
  /\ task[n].pc = "idle"
  /\ \E j \in DnsDocs :
       \E r \in {DataMesherMerge(mesh[n], Load(j).doc, mesh[n].key, now)} :
         /\ r.ok
         /\ mesh' = [mesh EXCEPT ![n] = r.m]
  /\ ev' = [op |-> "change", node |-> n]
  /\ UNCHANGED <<task, peers, wire, files, now>>
  /\ UNCHANGED meshvars
  /\ UNCHANGED app

\* DataMesher.save up to the temporary file of the DNS export: the state file
\* is written and renamed, and with a dns_file its temporary file is created
DnsSaveState(n) ==
  /\ task[n].pc = "idle"
  /\ \E m \in {Refresh(mesh[n], now)} :
       \E no \in Orders(DOMAIN m.networks), ho \in HostOrders(m) :
         /\ mesh' = [mesh EXCEPT ![n] = m]
         /\ files' = [files EXCEPT ![n] =
              LET f == [@ EXCEPT !.state =
                          JsonObject([i \in DOMAIN no |->
                                        [key |-> no[i],
                                         value |-> JsonNetwork(m.networks[no[i]], ho[no[i]])]])]
              IN  IF f.dns_file THEN DnsTempCreated(f) ELSE f]
         /\ wire' = [wire EXCEPT ![n] =
              IF files[n].dns_file THEN Saving(GetHostnames(m, no, ho)) ELSE NoRequest]
  /\ task' = [task EXCEPT ![n].pc = IF files[n].dns_file THEN "created" ELSE "idle"]
  /\ ev' = [op |-> "save", node |-> n, step |-> "state"]
  /\ UNCHANGED <<peers, now>>
  /\ UNCHANGED meshvars
  /\ UNCHANGED app

DnsWrite(n) ==
  /\ task[n].pc \in {"created", "writing"}
  /\ task' = [task EXCEPT ![n].pc = IF @ = "created" THEN "writing" ELSE "written"]
  /\ files' = [files EXCEPT ![n] = IF task[n].pc = "created"
                                   THEN DnsPartWritten(@, wire[n].data)
                                   ELSE DnsAllWritten(@, wire[n].data)]
  /\ ev' = [op |-> "save", node |-> n, step |-> "dns-write"]
  /\ UNCHANGED <<mesh, peers, wire, now>>
  /\ UNCHANGED meshvars
  /\ UNCHANGED app

DnsRename(n) ==
  /\ task[n].pc = "written"
  /\ task' = [task EXCEPT ![n].pc = "idle"]
  /\ files' = [files EXCEPT ![n] = DnsRenamed(@)]
  /\ wire' = [wire EXCEPT ![n] = NoRequest]
  /\ ev' = [op |-> "save", node |-> n, step |-> "dns-rename"]
  /\ UNCHANGED <<mesh, peers, now>>
  /\ UNCHANGED meshvars
  /\ UNCHANGED app

\* the save is interrupted before the rename of the DNS file
DnsInterrupt(n) ==
  /\ task[n].pc \in {"created", "writing", "written"}
  /\ task' = [task EXCEPT ![n].pc = "idle"]
  /\ wire' = [wire EXCEPT ![n] = NoRequest]
  /\ ev' = [op |-> "interrupt", node |-> n, data |-> wire[n].data]
  /\ UNCHANGED <<mesh, peers, files, now>>
  /\ UNCHANGED meshvars
  /\ UNCHANGED app

\* a consumer reads the path of the DNS file
ReadDns(n) ==
  /\ ev' = [op |-> "read", node |-> n, content |-> files[n].dns]
  /\ UNCHANGED <<mesh, task, peers, wire, files, now>>
  /\ UNCHANGED meshvars
  /\ UNCHANGED app

NextDns ==
  \E n \in Nodes :
    \/ DnsChange(n)
    \/ DnsSaveState(n)
    \/ DnsWrite(n)
    \/ DnsRename(n)
    \/ DnsInterrupt(n)
    \/ ReadDns(n)

SpecDns == InitDns /\ [][NextDns]_vars

\* the (network, host, hostname) triples of mesh m
Triples(m) ==
  UNION {UNION {{<<x, k, a>> : a \in DOMAIN m.networks[x].hosts[k].hostnames} :
                  k \in DOMAIN m.networks[x].hosts} :
           x \in DOMAIN m.networks}

\* the entry the export owes to triple t
Owed(m, t) ==
  [hostname |-> t[3] \o "." \o m.networks[t[1]].tld, ip |-> m.networks[t[1]].hosts[t[2]].ip]

\* lines holds one entry for each triple of m and nothing else
ExactExport(lines, m) ==
  /\ Len(lines) = Cardinality(Triples(m))
  /\ \A t \in Triples(m) :
       Cardinality({i \in DOMAIN lines : lines[i] = Owed(m, t)})
         = Cardinality({u \in Triples(m) : Owed(m, u) = Owed(m, t)})

\* C28: the DNS export written by save holds exactly one entry, hostname
\* "<name>.<tld>" with the host's ip, for each (network, host, hostname) triple
\* of the mesh and no other entry; and the path of the DNS file changes only
\* in the rename of the temporary file, to the whole export, so a reader never
\* sees a part of it.
C28_DnsExport ==
  [][\A n \in Nodes :
       /\ \/ files'[n].dns = files[n].dns
          \/ /\ task[n].pc = "written"
             /\ files'[n].dns.kind = "lines"
             /\ ExactExport(files'[n].dns.lines, mesh[n])
       /\ (ev'.op = "read" /\ ev'.node = n) => ev'.content.kind \in {"missing", "lines"}]_vars

\* a save has renamed an export of three entries over the path of the DNS
\* file, two of them equal (two hosts at one address claim the same name)
C28_Witness ==
  /\ ev.op = "save" /\ ev.step = "dns-rename"
  /\ Len(files[ev.node].dns.lines) = 3
  /\ \E i, j \in 1 .. 3 : i # j /\ files[ev.node].dns.lines[i] = files[ev.node].dns.lines[j]
  /\ Cardinality({files[ev.node].dns.lines[i] : i \in 1 .. 3}) = 2

\* ------------------------------------- a bad record in a document: C30

\* a direct call networks[n].merge(other), the network before the call and
\* the argument kept
NetworkMergeStep(n, other) ==
  /\ n \in DOMAIN networks
  /\ LET r == NetworkMerge(CurrentMesh, n, other, key, now)
     IN  /\ networks' = r.m.networks
         /\ host' = r.m.host
         /\ selfIn' = r.m.selfIn
         /\ last' = [op |-> "Network.merge", raised |-> ~r.ok, net |-> n,
                     hkey |-> "", self |-> {networks[n]}, other |-> {other}]
  /\ UNCHANGED <<key, now, applied>>
  /\ UNCHANGED sysvars

\* the documents of network "test" with a record for each of the two keys
TwoHostDocs ==
  {Doc(n, NetDoc(Settings(1, <<>>), hs)) :
     n \in NetIds, hs \in {s \in HostSeqs(PlainPool) : Len(s) = 2}}

\* the mesh adopts a network with two hosts, and the network then merges
\* documents
NextConfined ==
  \/ \E d \in TwoHostDocs : networks = NoNetworks /\ Merge(d)
  \/ \E d \in TwoHostDocs : \E n \in DOMAIN d.nets : NetworkMergeStep(n, d.nets[n])
  \/ Tick

SpecConfined == Init /\ [][NextConfined]_vars

\* the keys of the self host, whose record Network.hosts re-signs
SelfKeys == {h.public_key : h \in host}

\* record o is newer than the record held for its key in network self
NewerThanHeld(self, o) ==
  /\ o.public_key \in DOMAIN self.hosts
  /\ o.last_seen > self.hosts[o.public_key].last_seen

\* C30: a signature failure is confined to the offending entity: when
\* Network.merge receives a document in which one record is newer and does not
\* verify and another is newer and verifies, the record held for the first
\* host is unchanged and the second record is merged, whatever their order.
C30_FailureConfined ==
  last.op = "Network.merge" =>
    \A self \in last.self, other \in last.other :
      \A bad, good \in DOMAIN other.hosts \ SelfKeys :
        ( /\ NewerThanHeld(self, other.hosts[bad])
          /\ Verify(other.hosts[bad]) # "true"
          /\ NewerThanHeld(self, other.hosts[good])
          /\ Verify(other.hosts[good]) = "true" )
        => /\ networks[last.net].hosts[bad] = self.hosts[bad]
           /\ networks[last.net].hosts[good] = other.hosts[good]

\* ------------------------------------------ a merge that fails: C31

\* the keys of mesh m's self host
SelfKeysOf(m) == {h.public_key : h \in m.host}

\* network net without the record of the self host, which reading the hosts
\* re-signs
Others(net, ks) == [net EXCEPT !.hosts = [k \in DOMAIN net.hosts \ ks |-> net.hosts[k]]]

\* meshes a and b hold the same networks with the same settings and, the self
\* host apart, the same host records
SameButSelf(a, b) ==
  /\ DOMAIN a.networks = DOMAIN b.networks
  /\ \A x \in DOMAIN a.networks :
       Others(a.networks[x], SelfKeysOf(a)) = Others(b.networks[x], SelfKeysOf(a))

\* C31: the mesh in memory is never left partly updated by a failed
\* operation: when a merge started by the reconciler or by the POST handler
\* ends with an error, the mesh afterwards equals the mesh before the merge.
C31_FailedMergeLeavesMesh ==
  ((ev.op = "merge" /\ ev.raised) \/ (ev.op = "POST" /\ ev.status # 200)) =>
    SameButSelf(ev.before, mesh[ev.node])

\* ------------------------------------------------- ownership: C32

\* Python objects are held by reference.  To see what is shared, the objects
\* are kept here in a heap h: h.dicts are the dict objects that serve as host
\* maps (key -> index of a Host object), h.hosts the Host objects, h.nets the
\* Network objects (the index of their _hosts dict and the mesh they point
\* back to, 0 for None) and h.dms the DataMesher objects (name -> index of a
\* Network object).  The meshes here have no self host.

\* the most Network, DataMesher and Host objects built
MaxNets == 3
MaxMeshes == 2
MaxHosts == 3

\* the dict that `hosts: dict[VerifyKey, Host] = {}` in the signature of
\* Network.__init__ makes, once, when the class is defined
DefaultHosts == 1

Heap(dicts, hosts, nets, dms) == [dicts |-> dicts, hosts |-> hosts, nets |-> nets, dms |-> dms]

HostObject(k, ls) == [public_key |-> k, last_seen |-> ls]

\* Network(tld): self._hosts is the default dict
NetworkNoHosts(h) ==
  [h EXCEPT !.nets = Append(@, [hosts |-> DefaultHosts, data_mesher |-> 0])]

\* Network(tld, hosts={k: Host(...)}), as load() and the tests build it
NetworkWithHosts(h, k, ls) ==
  [h EXCEPT !.hosts = Append(@, HostObject(k, ls)),
            !.dicts = Append(@, [x \in {k} |-> Len(h.hosts) + 1]),
            !.nets = Append(@, [hosts |-> Len(h.dicts) + 1, data_mesher |-> 0])]

\* DataMesher(networks={"test": network i}), or DataMesher() for i = 0
NewDataMesher(h, i) ==
  IF i = 0 THEN [h EXCEPT !.dms = Append(@, [networks |-> <<>>])]
  ELSE [h EXCEPT !.dms = Append(@, [networks |-> [x \in {"test"} |-> i]]),
                 !.nets[i].data_mesher = Len(h.dms) + 1]

\* Host.merge(self, other) for the Host objects a and b of the heap
HeapHostMerge(h, a, b) ==
  IF h.hosts[b].last_seen > h.hosts[a].last_seen
  THEN [h EXCEPT !.hosts[a] = h.hosts[b]]
  ELSE h

\* Network.merge(self, other), the loop over the keys ks of other.hosts
RECURSIVE HeapMergeHosts(_, _, _, _)
HeapMergeHosts(h, x, y, ks) ==
  IF ks = {} THEN h
  ELSE LET k  == CHOOSE c \in ks : TRUE
           dx == h.nets[x].hosts
           dy == h.nets[y].hosts
           h1 == IF k \in DOMAIN h.dicts[dx]
                 THEN HeapHostMerge(h, h.dicts[dx][k], h.dicts[dy][k])
                 ELSE [h EXCEPT !.dicts[dx] = Put(@, k, h.dicts[dy][k])]
       IN  HeapMergeHosts(h1, x, y, ks \ {k})

HeapNetworkMerge(h, x, y) == HeapMergeHosts(h, x, y, DOMAIN h.dicts[h.nets[y].hosts])

\* DataMesher.merge(self, other) for the DataMesher objects a and b
RECURSIVE HeapMergeNetworks(_, _, _, _)
HeapMergeNetworks(h, a, b, ns) ==
  IF ns = {} THEN h
  ELSE LET n  == CHOOSE c \in ns : TRUE
           h1 == IF n \in DOMAIN h.dms[a].networks
                 THEN HeapNetworkMerge(h, h.dms[a].networks[n], h.dms[b].networks[n])
                 ELSE [h EXCEPT !.dms[a].networks = Put(@, n, h.dms[b].networks[n])]
           i  == h1.dms[a].networks[n]
       IN  HeapMergeNetworks([h1 EXCEPT !.nets[i].data_mesher = a], a, b, ns \ {n})

HeapDataMesherMerge(h, a, b) == HeapMergeNetworks(h, a, b, DOMAIN h.dms[b].networks)

\* what Network object i shows: its hosts by key, and the mesh it points to
NetworkView(h, i) ==
  [hosts |-> [k \in DOMAIN h.dicts[h.nets[i].hosts] |-> h.hosts[h.dicts[h.nets[i].hosts][k]]],
   data_mesher |-> h.nets[i].data_mesher]

\* what DataMesher object a shows
MeshView(h, a) == [n \in DOMAIN h.dms[a].networks |-> NetworkView(h, h.dms[a].networks[n])]

\* only the default dict exists
InitOwn ==
  /\ NoMesh
  /\ now = 1
  /\ mesh = Heap(<<NoNetworks>>, <<>>, <<>>, <<>>)
  /\ task = <<>>
  /\ peers = <<>>
  /\ wire = <<>>
  /\ files = <<>>
  /\ ev = [op |-> "init"]
  /\ app = <<>>

OwnStep(h, e) ==
  /\ mesh' = h
  /\ ev' = e
  /\ UNCHANGED <<task, peers, wire, files, now>>
  /\ UNCHANGED meshvars
  /\ UNCHANGED app

NewNetwork ==
  /\ Len(mesh.nets) < MaxNets
  /\ \/ OwnStep(NetworkNoHosts(mesh), [op |-> "Network", net |-> Len(mesh.nets) + 1])
     \/ /\ Len(mesh.hosts) < MaxHosts
        /\ \E k \in Keys, ls \in Times :
             OwnStep(NetworkWithHosts(mesh, k, ls), [op |-> "Network", net |-> Len(mesh.nets) + 1])

\* a DataMesher is built around a network that no mesh holds yet, or around
\* none
NewMesh ==
  /\ Len(mesh.dms) < MaxMeshes
  /\ \E i \in 0 .. Len(mesh.nets) :
       /\ i # 0 => mesh.nets[i].data_mesher = 0
       /\ OwnStep(NewDataMesher(mesh, i), [op |-> "DataMesher", dm |-> Len(mesh.dms) + 1])

\* x.merge(y) for two Network objects
NetMerge ==
  \E x, y \in DOMAIN mesh.nets :
    /\ x # y
    /\ OwnStep(HeapNetworkMerge(mesh, x, y),
               [op |-> "Network.merge", self |-> x, other |-> y,
                before |-> [i \in DOMAIN mesh.nets |-> NetworkView(mesh, i)]])

\* a.merge(b) for two DataMesher objects
MeshMerge ==
  \E a, b \in DOMAIN mesh.dms :
    /\ a # b
    /\ OwnStep(HeapDataMesherMerge(mesh, a, b),
               [op |-> "DataMesher.merge", self |-> a, other |-> b,
                before |-> [i \in DOMAIN mesh.dms |-> MeshView(mesh, i)]])

NextOwn == NewNetwork \/ NewMesh \/ NetMerge \/ MeshMerge

SpecOwn == InitOwn /\ [][NextOwn]_vars

\* the Host objects that network i holds
HeldHosts(h, i) == {h.dicts[h.nets[i].hosts][k] : k \in DOMAIN h.dicts[h.nets[i].hosts]}

\* C32: exclusive ownership holds after any sequence of constructions and
\* merges: no host map and no host record is shared between two distinct
\* networks, no network between two distinct meshes, and merge(self, other)
\* leaves other and everything it owns unchanged; networks constructed
\* without a hosts argument included.
C32_ExclusiveOwnership ==
  /\ \A x, y \in DOMAIN mesh.nets :
       x # y => /\ mesh.nets[x].hosts # mesh.nets[y].hosts
                /\ HeldHosts(mesh, x) \cap HeldHosts(mesh, y) = {}
  /\ \A a, b \in DOMAIN mesh.dms :
       a # b => \A n \in DOMAIN mesh.dms[a].networks, o \in DOMAIN mesh.dms[b].networks :
                  mesh.dms[a].networks[n] # mesh.dms[b].networks[o]
  /\ ev.op = "Network.merge" => NetworkView(mesh, ev.other) = ev.before[ev.other]
  /\ ev.op = "DataMesher.merge" => MeshView(mesh, ev.other) = ev.before[ev.other]

\* ------------------------------------------- hosts are kept: C33

\* every entry of every host map stands under its record's own public_key
KeyedByPublicKey(nets) ==
  \A n \in DOMAIN nets : \A k \in DOMAIN nets[n].hosts : nets[n].hosts[k].public_key = k

\* the documents that carry the settings the mesh starts from
KeptDocs == {d \in MeshDocs : \A n \in DOMAIN d.nets : d.nets[n].last_update = 1}

NextKept ==
  \/ \E d \in KeptDocs : Merge(d)
  \/ Tick

\* dm.merge(other) over and over, for documents with good, tampered and
\* forged records of any age
SpecKept == Init /\ [][NextKept]_vars

\* C33: hosts are never removed by merging: every network held before a
\* merge is held after it with at least the host keys it had, and in every
\* network each hosts entry is stored under its record's own public_key.
C33_HostsKept ==
  [][/\ \A n \in DOMAIN networks :
          /\ n \in DOMAIN networks'
          /\ DOMAIN networks[n].hosts \subseteq DOMAIN networks'[n].hosts
     /\ KeyedByPublicKey(networks')]_vars

\* a merge has raised part-way in a network that holds the records of both
\* keys, one of them the self host's
C33_Witness ==
  /\ last.op = "merge"
  /\ last.raised
  /\ host # {}
  /\ \E n \in DOMAIN networks : DOMAIN networks[n].hosts = Keys

====
